---- MODULE Spec2Model ----
(***************************************************************************)
(* Session orchestration and admission control of the Playwright stress    *)
(* test driver (src/main.py): stress_test launches one task per            *)
(* (user, replica); each task runs run_session_with_context, whose         *)
(* interaction phase may hand over to the continuous question pipeline of  *)
(* interact_with_chatbot.                                                  *)
(*                                                                         *)
(* Tasks are asyncio coroutines: the code between two awaits runs without  *)
(* interleaving, so every action below is the code from one suspension     *)
(* point to the next.                                                      *)
(***************************************************************************)
EXTENDS Integers, Sequences, FiniteSets, TLC

\* ------------------------------------------------------------------ bounds
MaxSessions == 2
MaxContexts == 2
MaxPool == 3
MaxIter == 2
MaxCeiling == 52
MaxBatch == 4
MaxIndex == 12
MaxDelay == 1
MaxTracked == 2
MaxEvents == 2
MaxReports == 3
MaxQuestions == 3
MaxClaimPool == 2
MaxCycles == 3
MaxOrphaned == 2
MaxRuns == 2
MaxRequests == 4

\* --------------------------------------------------------------- variables
VARIABLES
    \* run configuration (STRESS_TEST_CONFIG as read by stress_test)
    numUsers, sessions_per_user, max_contexts,
    \* stress_test / main
    run_pc, semaphore, semaphore_limit, sem_value,
    successful_sessions, failed_sessions,
    \* the shared browser
    browser_state,
    \* one entry per launched session
    session_id, sess_state, semaphore_acquired, permits_held,
    context, result, fault, error,
    \* run_user_session: the login loop, the pages, the cleanup
    login_attempt, login_failure, login_successful, dashboard_visible,
    pages, closed_again,
    \* run_user_session: the targets whose interact_with_chatbot was put in
    \* chatbot_tasks
    chatbot_tasks,
    \* ResourceCalculator.calculate_optimal_config: its inputs and result
    max_contexts_memory, max_contexts_cpu, optimal_config,
    \* stress_test: the construction of the task list
    session_batch_size, session_configs, tasks, batch_num, task_objects,
    sched_pc, session_setup_delay, session_batch_delay, batch_processing,
    schedule_log,
    \* SessionTracker: its fields, the stop_tracking calls suspended in their
    \* await, and the last call made with its outcome
    active_sessions, session_metrics, is_tracking, tracking_task,
    periodic_reports, stop_waiters, tracker_call,
    \* the STRESS_TEST_CONFIG dict and how far its use by a run has got
    stress_test_config, config_pc,
    \* a user's 'questions' and the result of distribute_questions_by_course
    questions, question_distribution,
    \* process_question_pipeline statement by statement: counter_lock, each
    \* worker's question_idx, question and question_num, and the claim
    \* numbers handed out so far
    counter_lock, question_idx, question, question_num, claim_log,
    \* the questions claimed since the last multiple of the pool's length
    block_log,
    \* interact_with_chatbot in cycle mode: the two mode flags, the list of
    \* questions, the cycle counter, the question of the cycle being asked
    \* and how far the function has got
    continuous_mode, concurrent_questions, questions_to_use, cycle_count,
    cycle_question, cycle_pc,
    \* ask_single_question: its loops, its locals, whether the question was
    \* submitted, whether a poll saw the ready signal, and the metric returned
    unit_pc, attempt, question_box, question_click_attempt,
    question_box_click_success, submitted, waited_time, ready_observed,
    response_received, question_metric,
    \* interact_with_chatbot: the loop variables of its set-up
    chatbot_attempt, auth_attempt,
    \* tracking/integration_helper.py: the two settings it reads, the
    \* report_interval of the global tracker, and the reporting tasks of
    \* replaced trackers that are still running
    enable_session_tracking, tracking_report_interval, report_interval,
    orphaned_tasks,
    \* api.py: _stress_test_running, the background tasks created so far
    \* (_stress_test_task is the last), the number of start requests
    \* handled and the response to the last one
    stress_test_running, stress_test_tasks, api_requests, api_response,
    \* the continuous pipeline of one target (interact_with_chatbot)
    continuous_iterations, question_pool, question_counter,
    total_questions_processed, should_continue, worker_pc,
    question_metrics, unit_failed, pipeline_pc

runVars == <<numUsers, sessions_per_user, max_contexts, run_pc, semaphore,
             semaphore_limit, sem_value, successful_sessions, failed_sessions>>
runVars_but_sem == <<numUsers, sessions_per_user, max_contexts, run_pc, semaphore,
                     semaphore_limit, successful_sessions, failed_sessions>>
sessVars == <<session_id, sess_state, semaphore_acquired, permits_held,
              context, result, fault, error, login_attempt, login_failure,
              login_successful, dashboard_visible, pages, closed_again,
              chatbot_tasks>>
sizingVars == <<max_contexts_memory, max_contexts_cpu, optimal_config>>
schedVars == <<session_batch_size, session_configs, tasks, batch_num,
               task_objects, sched_pc, session_setup_delay,
               session_batch_delay, batch_processing, schedule_log>>
schedConfig == <<session_batch_size, session_setup_delay, session_batch_delay,
                 batch_processing>>
trackVars == <<active_sessions, session_metrics, is_tracking, tracking_task,
               periodic_reports, stop_waiters, tracker_call>>
configVars == <<stress_test_config, config_pc>>
distVars == <<questions, question_distribution>>
claimVars == <<counter_lock, question_idx, question, question_num, claim_log,
               block_log>>
cycleVars == <<continuous_mode, concurrent_questions, questions_to_use,
               cycle_count, cycle_question, cycle_pc>>
unitVars == <<unit_pc, attempt, question_box, question_click_attempt,
              question_box_click_success, submitted, waited_time,
              ready_observed, response_received, question_metric>>
setupVars == <<chatbot_attempt, auth_attempt>>
helperVars == <<enable_session_tracking, tracking_report_interval,
                report_interval, orphaned_tasks>>
apiVars == <<stress_test_running, stress_test_tasks, api_requests,
             api_response>>
moreVars == <<cycleVars, unitVars, setupVars, helperVars, apiVars>>
extVars == <<sizingVars, schedVars, trackVars, configVars, distVars,
            claimVars, moreVars>>
pipeVars == <<continuous_iterations, question_pool, question_counter,
              total_questions_processed, should_continue, worker_pc,
              question_metrics, unit_failed, pipeline_pc>>
vars == <<runVars, browser_state, sessVars, pipeVars, extVars>>

\* ------------------------------------------------------------------ helpers
\* continuous_iterations is None or an integer: None is <<>>, n is <<n>>.
None == <<>>
Some(n) == <<n>>

Max(a, b) == IF a > b THEN a ELSE b
Min(a, b) == IF a < b THEN a ELSE b

\* The sessions of the run, (user number, replica number), both 1-based.
Sessions == DOMAIN sess_state

\* f"User{user_index+1}_Session{session_idx+1}_{username}": the text before
\* the first "_" is "User" followed by the decimal digits of the user number.
\* str(n) for n >= 0: the decimal digits, most significant first.
RECURSIVE Decimal(_)
Decimal(n) ==
    LET digit(d) == <<"0", "1", "2", "3", "4", "5", "6", "7", "8", "9">>[d + 1]
    IN  IF n < 10 THEN <<digit(n)>>
        ELSE Append(Decimal(n \div 10), digit(n % 10))

SessionIdTextNoReplica(u, j) ==
    <<"User">> \o Decimal(u) \o <<"_">> \o <<"username">>

\* The characters of f"User{u}_Session{j}_{username}"; the user name is the
\* same text for every user, the case in which nothing but the two numbers
\* tells the ids apart.
SessionIdText(u, j) ==
    <<"User">> \o Decimal(u) \o <<"_Session">> \o Decimal(j) \o <<"_">>
        \o <<"username">>

StressSessionId(u, j) ==
    [user_part |-> [word |-> "User", digits |-> <<u>>], session |-> j,
     text |-> SessionIdText(u, j)]

\* f"User_{i+1}_{username}": the text before the first "_" is just "User".
NormalSessionId(u) ==
    [user_part |-> [word |-> "User", digits |-> <<>>], session |-> 0,
     text |-> <<"User", "_">> \o Decimal(u) \o <<"_", "username">>]

\* int(user_part.replace("User", "")): int("") raises ValueError.
UserIndexParses(sid) == Len(sid.user_part.digits) > 0

SemaphoreLimitContextsOnly(maxc, total) == maxc

\* semaphore_limit = max(max_contexts, total_concurrent_sessions)
SemaphoreLimit(maxc, total) == Max(maxc, total)

BrowserConnected == browser_state = "connected"

Terminal(s) == sess_state[s] \in {"Completed", "Failed", "Cancelled"}

GatherDoneOnFirstFailure ==
    \/ \A s \in Sessions : Terminal(s)
    \/ \E s \in Sessions : Terminal(s) /\ result[s] # "success"

\* asyncio.gather(*task_objects, return_exceptions=True) returns when every
\* task has finished, whatever its outcome.
GatherDone == \A s \in Sessions : Terminal(s)

\* login_page, course_1_page and course_2_page before any of them is set.
NoPages == [p \in {"login", "course_1", "course_2"} |-> "none"]

\* No pipeline is modelled: the interaction phase is taken as a whole.
PipelineIdle ==
    /\ continuous_iterations = None
    /\ question_pool = <<>>
    /\ question_counter = 0
    /\ total_questions_processed = 0
    /\ should_continue = TRUE
    /\ worker_pc = <<>>
    /\ question_metrics = 0
    /\ unit_failed = FALSE
    /\ pipeline_pc = "none"

\* config.py: 'batch_processing': {'enabled': False, ...,
\* 'wait_for_completion': True}
DefaultBatchProcessing == [enabled |-> FALSE, wait_for_completion |-> TRUE]

\* config.py: the three question lists (two questions, one and one stand
\* for the ten of each list; the lists have no question in common).
course_1_questions == <<"course_1_a", "course_1_b">>
course_2_questions == <<"course_2_a">>
general_questions == <<"general_a">>

\* config.py, USERS: 'questions': course_1_questions + course_2_questions +
\* general_questions, for every user.
UserQuestions == course_1_questions \o course_2_questions \o general_questions

Range(list) == {list[i] : i \in DOMAIN list}

\* The branch of the loop body a question takes: the three sets are tested
\* in this order, and a question of none of them is "unknown".
Branch(q) ==
    IF q \in Range(course_1_questions) THEN "course_1"
    ELSE IF q \in Range(course_2_questions) THEN "course_2"
    ELSE IF q \in Range(general_questions) THEN "general"
    ELSE "unknown"

AppendedToCourse2Only(branch) == branch = "course_2"

\* "course_2_list.append(question)" is in the course-2, the general and the
\* unknown branch.
AppendedToCourse2(branch) == branch \in {"course_2", "general", "unknown"}

\* "course_1_list.append(question)" is in the course-1, the general and the
\* unknown branch.
AppendedToCourse1(branch) == branch \in {"course_1", "general", "unknown"}

\* distribute_questions_by_course: the loop over user_questions, then the
\* even split when the user has questions and both lists are empty.
DistributeQuestionsByCourse(user_questions) ==
    LET to_1(q) == AppendedToCourse1(Branch(q))
        to_2(q) == AppendedToCourse2(Branch(q))
        course_1_list == SelectSeq(user_questions, to_1)
        course_2_list == SelectSeq(user_questions, to_2)
        mid == Len(user_questions) \div 2
    IN  IF user_questions # <<>> /\ course_1_list = <<>> /\ course_2_list = <<>>
        THEN [course_1 |-> IF mid > 0 THEN SubSeq(user_questions, 1, mid)
                           ELSE SubSeq(user_questions, 1, 1),
              course_2 |-> IF mid > 0
                           THEN SubSeq(user_questions, mid + 1,
                                       Len(user_questions))
                           ELSE <<>>]
        ELSE [course_1 |-> course_1_list, course_2 |-> course_2_list]

\* "if course_1_questions_list: chatbot_tasks.append(interact_with_chatbot(
\* course_1_page, ...))" and the same for course 2: the targets that get a
\* chatbot task.
ChatbotTasks(distribution) ==
    {k \in 1..2 : distribution[IF k = 1 THEN "course_1" ELSE "course_2"] # <<>>}

\* No call of distribute_questions_by_course is being looked at.
DistIdle ==
    /\ questions = UserQuestions
    /\ question_distribution = None

\* No pipeline is being followed statement by statement.
ClaimIdle ==
    /\ counter_lock = None
    /\ question_idx = <<>>
    /\ question = <<>>
    /\ question_num = <<>>
    /\ claim_log = <<>>
    /\ block_log = <<>>

\* The STRESS_TEST_CONFIG dict is left alone: nothing reads or writes it.
ConfigIdle ==
    /\ stress_test_config =
          [sessions_per_user |-> 1, max_concurrent_contexts |-> None,
           dynamic_resource_calculation |-> FALSE]
    /\ config_pc = "none"

\* SessionTracker.__init__; no call has been made yet.
TrackerIdle ==
    /\ active_sessions = <<>>
    /\ session_metrics = <<>>
    /\ is_tracking = FALSE
    /\ tracking_task = "none"
    /\ periodic_reports = <<>>
    /\ stop_waiters = 0
    /\ tracker_call = [op |-> "none", id |-> 0, outcome |-> "returned"]

\* interact_with_chatbot is not followed cycle by cycle.
CycleIdle ==
    /\ continuous_mode = FALSE
    /\ concurrent_questions = FALSE
    /\ questions_to_use = <<>>
    /\ cycle_count = 0
    /\ cycle_question = 0
    /\ cycle_pc = "none"

\* No ask_single_question is followed.
UnitIdle ==
    /\ unit_pc = "none"
    /\ attempt = 0
    /\ question_box = None
    /\ question_click_attempt = 0
    /\ question_box_click_success = FALSE
    /\ submitted = FALSE
    /\ waited_time = 0
    /\ ready_observed = FALSE
    /\ response_received = FALSE
    /\ question_metric = None

\* No set-up of a chatbot is followed.
SetupIdle ==
    /\ chatbot_attempt = 0
    /\ auth_attempt = 0

\* SessionTracker(report_interval=300), 'tracking_report_interval': 300
DefaultReportInterval == 300

\* The settings are those of config.py and no tracker has been replaced.
HelperIdle ==
    /\ enable_session_tracking = TRUE
    /\ tracking_report_interval = DefaultReportInterval
    /\ report_interval = DefaultReportInterval
    /\ orphaned_tasks = 0

\* _stress_test_running = False, _stress_test_task = None
ApiIdle ==
    /\ stress_test_running = FALSE
    /\ stress_test_tasks = <<>>
    /\ api_requests = 0
    /\ api_response = "none"

MoreIdle == CycleIdle /\ UnitIdle /\ SetupIdle /\ HelperIdle /\ ApiIdle

\* No sizing and no task-list construction is in progress.
RestIdle ==
    /\ TrackerIdle
    /\ ConfigIdle
    /\ DistIdle
    /\ MoreIdle
    /\ max_contexts_memory = 0
    /\ max_contexts_cpu = 0
    /\ optimal_config = None
    /\ session_batch_size = None
    /\ session_configs = <<>>
    /\ tasks = <<>>
    /\ batch_num = 0
    /\ task_objects = <<>>
    /\ sched_pc = "none"
    /\ session_setup_delay = 0
    /\ session_batch_delay = 0
    /\ batch_processing = DefaultBatchProcessing
    /\ schedule_log = <<>>

ExtIdle == RestIdle /\ ClaimIdle

\* ------------------------------------------------------------------- Init
Init ==
    /\ numUsers \in 1..MaxSessions
    /\ sessions_per_user \in 1..MaxSessions
    /\ numUsers * sessions_per_user <= MaxSessions
    /\ max_contexts \in 1..MaxContexts
    /\ run_pc = "start"
    /\ semaphore = FALSE
    /\ semaphore_limit = 0
    /\ sem_value = 0
    /\ successful_sessions = 0
    /\ failed_sessions = 0
    /\ browser_state = "connected"
    /\ session_id = <<>>
    /\ sess_state = <<>>
    /\ semaphore_acquired = <<>>
    /\ permits_held = <<>>
    /\ context = <<>>
    /\ result = <<>>
    /\ fault = <<>>
    /\ error = <<>>
    /\ login_attempt = <<>>
    /\ login_failure = <<>>
    /\ login_successful = <<>>
    /\ dashboard_visible = <<>>
    /\ pages = <<>>
    /\ closed_again = <<>>
    /\ chatbot_tasks = <<>>
    /\ PipelineIdle
    /\ ExtIdle

\* ------------------------------------------------------------- stress_test
\* Builds the gate and one session descriptor per (user, replica), creates
\* the tasks and starts gathering them.
StressTestStart ==
    /\ run_pc = "start"
    /\ LET planned == (1..numUsers) \X (1..sessions_per_user)
           total_concurrent_sessions == numUsers * sessions_per_user
       IN  /\ semaphore_limit' = SemaphoreLimit(max_contexts, total_concurrent_sessions)
           /\ sem_value' = SemaphoreLimit(max_contexts, total_concurrent_sessions)
           /\ semaphore' = TRUE
           /\ session_id' = [s \in planned |-> StressSessionId(s[1], s[2])]
           /\ sess_state' = [s \in planned |-> "Pending"]
           /\ semaphore_acquired' = [s \in planned |-> FALSE]
           /\ permits_held' = [s \in planned |-> 0]
           /\ context' = [s \in planned |-> "None"]
           /\ result' = [s \in planned |-> "none"]
           /\ fault' = [s \in planned |-> FALSE]
           /\ error' = [s \in planned |-> "none"]
           /\ login_attempt' = [s \in planned |-> 0]
           /\ login_failure' = [s \in planned |-> "none"]
           /\ login_successful' = [s \in planned |-> FALSE]
           /\ dashboard_visible' = [s \in planned |-> FALSE]
           /\ pages' = [s \in planned |-> NoPages]
           /\ closed_again' = [s \in planned |-> FALSE]
           /\ chatbot_tasks' = [s \in planned |-> {}]
    /\ run_pc' = "gathering"
    /\ UNCHANGED <<numUsers, sessions_per_user, max_contexts,
                   successful_sessions, failed_sessions, browser_state, pipeVars,
                   extVars>>

\* ------------------------------------------------ run_session_with_context
NoReleaseOnContextCreated(acquired) == 0

\* Number of semaphore.release() calls made when context creation succeeded:
\* one, after which the flag is cleared.
ReleasesOnContextCreated(acquired) == IF acquired THEN 1 ELSE 0

\* Number of semaphore.release() calls made when setup fails (browser not
\* connected, new_context raises, context is None): the failure branch
\* releases and returns without clearing the flag, and the finally block
\* releases once more.
ReleasesOnSetupFailure(acquired) == IF acquired THEN 2 ELSE 0

ResultOnFatalLoginPropagates(reason) ==
    IF reason = "login" THEN "exception" ELSE "failed"

\* "except Exception as e: ... return {'success': False, 'error': ...}" and
\* the early "return {'success': False, ...}" of the setup checks: whatever
\* the reason, the caller gets a result dict.
ResultOnFatal(reason) == "failed"

\* Task start up to the await of browser.new_context().
\* The session-id parse sits in a try whose except clause holds the acquire
\* and whose else clause sets semaphore_acquired = False.
TaskStart(s) ==
    /\ run_pc = "gathering"
    /\ sess_state[s] = "Pending"
    /\ LET parses == UserIndexParses(session_id[s])
           acquires == ~parses /\ semaphore
           raises == ~parses /\ ~semaphore
           got == IF acquires THEN 1 ELSE 0
       IN  /\ acquires => sem_value > 0
           /\ IF raises
              THEN \* None.acquire(): AttributeError leaves the coroutine
                   /\ sess_state' = [sess_state EXCEPT ![s] = "Failed"]
                   /\ result' = [result EXCEPT ![s] = "exception"]
                   /\ error' = [error EXCEPT ![s] = "AttributeError"]
                   /\ UNCHANGED <<semaphore_acquired, permits_held, sem_value>>
              ELSE IF BrowserConnected
              THEN /\ sess_state' = [sess_state EXCEPT ![s] = "SettingUp"]
                   /\ semaphore_acquired' = [semaphore_acquired EXCEPT ![s] = acquires]
                   /\ permits_held' = [permits_held EXCEPT ![s] = got]
                   /\ sem_value' = sem_value - got
                   /\ UNCHANGED <<result, error>>
              ELSE /\ sess_state' = [sess_state EXCEPT ![s] = "Failed"]
                   /\ result' = [result EXCEPT ![s] =
                                    ResultOnFatal("browser_not_connected")]
                   /\ error' = [error EXCEPT ![s] = "browser_not_connected"]
                   /\ semaphore_acquired' = [semaphore_acquired EXCEPT ![s] = acquires]
                   /\ permits_held' = [permits_held EXCEPT ![s] =
                                          got - ReleasesOnSetupFailure(acquires)]
                   /\ sem_value' = sem_value - got + ReleasesOnSetupFailure(acquires)
    /\ UNCHANGED <<numUsers, sessions_per_user, max_contexts, run_pc, semaphore,
                   semaphore_limit, successful_sessions, failed_sessions,
                   browser_state, session_id, context, fault, login_attempt,
                   login_failure, login_successful, dashboard_visible, pages,
                   closed_again, chatbot_tasks, pipeVars, extVars>>

\* await browser.new_context() returns a context, raises, or returns None.
NewContextReturns(s, outcome) ==
    /\ sess_state[s] = "SettingUp"
    /\ BrowserConnected \/ outcome # "ok"
    /\ IF outcome = "ok"
       THEN /\ sess_state' = [sess_state EXCEPT ![s] = "CtxReady"]
            /\ context' = [context EXCEPT ![s] = "open"]
            /\ semaphore_acquired' = [semaphore_acquired EXCEPT ![s] = FALSE]
            /\ permits_held' = [permits_held EXCEPT ![s] =
                                   @ - ReleasesOnContextCreated(semaphore_acquired[s])]
            /\ sem_value' = sem_value + ReleasesOnContextCreated(semaphore_acquired[s])
            /\ UNCHANGED <<result, fault, error>>
       ELSE /\ sess_state' = [sess_state EXCEPT ![s] = "Failed"]
            /\ result' = [result EXCEPT ![s] = ResultOnFatal("context_creation")]
            /\ error' = [error EXCEPT ![s] = "context_creation"]
            /\ fault' = [fault EXCEPT ![s] = TRUE]
            /\ permits_held' = [permits_held EXCEPT ![s] =
                                   @ - ReleasesOnSetupFailure(semaphore_acquired[s])]
            /\ sem_value' = sem_value + ReleasesOnSetupFailure(semaphore_acquired[s])
            /\ UNCHANGED <<context, semaphore_acquired>>
    /\ UNCHANGED <<runVars_but_sem, browser_state, session_id, login_attempt,
                   login_failure, login_successful, dashboard_visible, pages,
                   closed_again, chatbot_tasks, pipeVars, extVars>>

\* After asyncio.sleep(0.2): the second browser check, then run_user_session
\* up to "login_page = await context.new_page()", which returns the page or
\* raises.
SessionBegin(s, page_ok) ==
    /\ sess_state[s] = "CtxReady"
    /\ page_ok => BrowserConnected
    /\ IF BrowserConnected /\ page_ok
       THEN /\ sess_state' = [sess_state EXCEPT ![s] = "Authenticating"]
            /\ pages' = [pages EXCEPT ![s]["login"] = "open"]
            /\ UNCHANGED <<result, error, fault>>
       ELSE IF BrowserConnected
       THEN /\ sess_state' = [sess_state EXCEPT ![s] = "ClosingPages"]
            /\ result' = [result EXCEPT ![s] = ResultOnFatal("login_page")]
            /\ error' = [error EXCEPT ![s] = "login_page"]
            /\ fault' = [fault EXCEPT ![s] = TRUE]
            /\ UNCHANGED pages
       ELSE /\ sess_state' = [sess_state EXCEPT ![s] = "TearingDown"]
            /\ result' = [result EXCEPT ![s] =
                             ResultOnFatal("browser_not_connected")]
            /\ error' = [error EXCEPT ![s] = "browser_not_connected"]
            /\ UNCHANGED <<pages, fault>>
    /\ UNCHANGED <<runVars, browser_state, session_id, semaphore_acquired,
                   permits_held, context, login_attempt, login_failure,
                   login_successful, dashboard_visible, 
                   closed_again, chatbot_tasks, pipeVars, extVars>>

\* ------------------------------------------------------- run_user_session
\* login_max_retries = 3
LoginMaxRetries == 3

\* What one pass of the login loop can meet: the dashboard container becomes
\* visible; the page is not ready in time; the credentials are rejected (the
\* login form comes back and the dashboard never shows); goto/fill/click
\* raises; the browser is found disconnected before navigation.
LoginOutcomes == {"visible", "not_ready", "rejected", "error", "disconnected"}

LoginConfirmedNoException(outcome) == outcome \in {"visible", "not_ready", "rejected"}

\* login_successful = True is set only after
\* dashboard_locator.wait_for(state='visible') returned.
LoginConfirmed(outcome) == outcome = "visible"

MayRetryOneLess(tries) == tries < LoginMaxRetries - 1

\* "if login_attempt < login_max_retries: ... continue", the same test in
\* every failure branch, whatever the failure was.
MayRetry(tries) == tries < LoginMaxRetries

\* One pass of "for login_attempt in range(1, login_max_retries + 1)".
\* login_attempt and login_failure are the loop's own variables: they are
\* kept while the loop runs and, for login_attempt, when the loop raises.
LoginAttempt(s, outcome) ==
    /\ sess_state[s] = "Authenticating"
    /\ ~login_successful[s]
    /\ login_attempt[s] < LoginMaxRetries
    /\ outcome = "visible" => BrowserConnected
    /\ outcome = "disconnected" <=> ~BrowserConnected
    /\ IF LoginConfirmed(outcome)
       THEN /\ login_successful' = [login_successful EXCEPT ![s] = TRUE]
            /\ dashboard_visible' = [dashboard_visible EXCEPT ![s] = (outcome = "visible")]
            /\ login_attempt' = [login_attempt EXCEPT ![s] = 0]
            /\ login_failure' = [login_failure EXCEPT ![s] = "none"]
            /\ UNCHANGED <<sess_state, result, error, fault>>
       ELSE /\ login_attempt' = [login_attempt EXCEPT ![s] = @ + 1]
            /\ UNCHANGED <<login_successful, dashboard_visible>>
            /\ IF MayRetry(login_attempt[s] + 1)
               THEN /\ login_failure' = [login_failure EXCEPT ![s] = outcome]
                    /\ UNCHANGED <<sess_state, result, error, fault>>
               ELSE /\ login_failure' = [login_failure EXCEPT ![s] = "none"]
                    /\ sess_state' = [sess_state EXCEPT ![s] = "ClosingPages"]
                    /\ result' = [result EXCEPT ![s] = ResultOnFatal("login")]
                    /\ error' = [error EXCEPT ![s] = "login"]
                    /\ fault' = [fault EXCEPT ![s] = TRUE]
    /\ UNCHANGED <<runVars, browser_state, session_id, semaphore_acquired,
                   permits_held, context, pages, closed_again, chatbot_tasks,
                   pipeVars, extVars>>

\* After the login loop: the wait for the two course cards (its recovery
\* reload may raise), then "await login_page.close()".
CardsChecked(s, raised) ==
    /\ sess_state[s] = "Authenticating"
    /\ login_successful[s]
    /\ ~raised => BrowserConnected
    /\ IF raised
       THEN /\ sess_state' = [sess_state EXCEPT ![s] = "ClosingPages"]
            /\ result' = [result EXCEPT ![s] = ResultOnFatal("dashboard_cards")]
            /\ error' = [error EXCEPT ![s] = "dashboard_cards"]
            /\ fault' = [fault EXCEPT ![s] = TRUE]
            /\ UNCHANGED pages
       ELSE /\ sess_state' = [sess_state EXCEPT ![s] = "PreparingTargets"]
            /\ pages' = [pages EXCEPT ![s]["login"] = "closed"]
            /\ UNCHANGED <<result, error, fault>>
    /\ UNCHANGED <<runVars, browser_state, session_id, semaphore_acquired,
                   permits_held, context, login_attempt, login_failure,
                   login_successful, dashboard_visible, 
                   closed_again, chatbot_tasks, pipeVars, extVars>>

\* What the first open_course of a target can do: return the page, raise an
\* error, or raise "... context or browser has been closed".
OpenOutcomes == {"opened", "error", "closed"}

\* The recovery retry runs for a closed-context error unless
\* "context and not context.pages".
RetryRuns(first, pagesLeft) == first = "closed" /\ pagesLeft

\* course_k_page is set by the gather result or by the recovery retry.
CourseOpen(first, pagesLeft, retry_ok) ==
    first = "opened" \/ (RetryRuns(first, pagesLeft) /\ retry_ok)

\* course_k_error is set from the gather result and replaced by the retry's
\* error when the retry fails; a retry that succeeds leaves it set.
CourseError(first, pagesLeft, retry_ok) == first # "opened"

\* open_course for both targets, gathered, then the recovery retries:
\* "if course_1_error and course_2_error: raise"; otherwise the chatbot
\* tasks are made for the lists of the distribution that have questions.
TargetsOpened(s, first, pagesLeft, retry_ok) ==
    /\ sess_state[s] = "PreparingTargets"
    /\ LET open(k) == CourseOpen(first[k], pagesLeft[k], retry_ok[k])
           err(k) == CourseError(first[k], pagesLeft[k], retry_ok[k])
       IN  /\ (open(1) \/ open(2)) => BrowserConnected
           /\ \A k \in 1..2 : ~RetryRuns(first[k], pagesLeft[k]) => ~retry_ok[k]
           /\ \A k \in 1..2 : first[k] # "closed" => ~pagesLeft[k]
           /\ pages' = [pages EXCEPT ![s] =
                           [p \in DOMAIN @ |->
                               IF p = "course_1" /\ open(1) THEN "open"
                               ELSE IF p = "course_2" /\ open(2) THEN "open"
                               ELSE @[p]]]
           /\ IF err(1) /\ err(2)
              THEN /\ sess_state' = [sess_state EXCEPT ![s] = "ClosingPages"]
                   /\ result' = [result EXCEPT ![s] = ResultOnFatal("targets")]
                   /\ error' = [error EXCEPT ![s] = "targets"]
                   /\ fault' = [fault EXCEPT ![s] = TRUE]
                   /\ UNCHANGED chatbot_tasks
              ELSE /\ sess_state' = [sess_state EXCEPT ![s] = "Interacting"]
                   /\ chatbot_tasks' =
                         [chatbot_tasks EXCEPT ![s] =
                             ChatbotTasks(DistributeQuestionsByCourse(questions))]
                   /\ UNCHANGED <<result, error, fault>>
    /\ UNCHANGED <<runVars, browser_state, session_id, semaphore_acquired,
                   permits_held, context, login_attempt, login_failure,
                   login_successful, dashboard_visible, 
                   closed_again, pipeVars, extVars>>

\* The chatbot tasks return (interact_with_chatbot logs its own errors and
\* never raises); run_user_session leaves its try block with no exception
\* and the result will be success.
InteractionEnds(s) ==
    /\ sess_state[s] = "Interacting"
    /\ pipeline_pc \in {"none", "returned"}
    /\ sess_state' = [sess_state EXCEPT ![s] = "ClosingPages"]
    /\ result' = [result EXCEPT ![s] = "success"]
    /\ UNCHANGED <<runVars, browser_state, session_id, semaphore_acquired,
                   permits_held, context, fault, error, login_attempt,
                   login_failure, login_successful, dashboard_visible, pages,
                   closed_again, chatbot_tasks, pipeVars, extVars>>

PageIds == {"login", "course_1", "course_2"}

\* What a disconnect does to every context and to its pages: Playwright
\* marks them closed (page.is_closed() is True from then on).
ContextsAfterDisconnect(cc) ==
    [s \in DOMAIN cc |-> IF cc[s] = "open" THEN "closed" ELSE cc[s]]

PagesAfterDisconnect(pp) ==
    [s \in DOMAIN pp |->
        [p \in DOMAIN pp[s] |-> IF pp[s][p] = "open" THEN "closed" ELSE pp[s][p]]]

\* Every close() of the two finally blocks sits in "try: ... except
\* Exception": an exception raised by a close is logged and dropped.
CleanupPropagates(raised) == FALSE

ShouldClosePageEvenIfClosed(state) == state # "none"

\* "if page: if not page.is_closed(): pages_to_close.append(page)" and
\* "for page in context.pages: if not page.is_closed(): await page.close()".
ShouldClosePage(state) == state = "open"

\* The finally block of run_user_session: every page that is set and not
\* closed is closed while the browser is connected.  A close() raises only
\* when the browser went away under it.
UserSessionFinally(s, raised) ==
    /\ sess_state[s] = "ClosingPages"
    /\ LET closing == {p \in PageIds :
                          ShouldClosePage(pages[s][p]) /\ BrowserConnected}
       IN  /\ raised => closing # {}
           /\ closed_again' = [closed_again EXCEPT ![s] =
                                  @ \/ \E p \in closing : pages[s][p] = "closed"]
           /\ pages' = IF raised THEN PagesAfterDisconnect(pages)
                       ELSE [pages EXCEPT ![s] =
                               [p \in DOMAIN @ |->
                                   IF p \in closing THEN "closed" ELSE @[p]]]
    /\ browser_state' = IF raised THEN "crashed" ELSE browser_state
    /\ context' = IF raised THEN ContextsAfterDisconnect(context) ELSE context
    /\ sess_state' = [sess_state EXCEPT ![s] = "TearingDown"]
    /\ result' = [result EXCEPT ![s] =
                     IF CleanupPropagates(raised) THEN "exception" ELSE @]
    /\ UNCHANGED <<runVars, session_id, semaphore_acquired,
                   permits_held, fault, error, login_attempt,
                   login_failure, login_successful, dashboard_visible, chatbot_tasks,
                   pipeVars, extVars>>

\* The finally block of run_session_with_context: with a context and a
\* connected browser, the pages of the context that are not closed are
\* closed, then the context; a permit still flagged as held is released.
Cleanup(s, raised) ==
    /\ sess_state[s] = "TearingDown"
    /\ LET cleaning == context[s] = "open" /\ BrowserConnected
           closing == {p \in PageIds : ShouldClosePage(pages[s][p]) /\ cleaning}
       IN  /\ raised => cleaning
           /\ closed_again' = [closed_again EXCEPT ![s] =
                                  @ \/ \E p \in closing : pages[s][p] = "closed"]
           /\ pages' = IF raised THEN PagesAfterDisconnect(pages)
                       ELSE [pages EXCEPT ![s] =
                               [p \in DOMAIN @ |->
                                   IF p \in closing THEN "closed" ELSE @[p]]]
           /\ context' = IF raised THEN ContextsAfterDisconnect(context)
                         ELSE [context EXCEPT ![s] =
                                  IF cleaning THEN "closed" ELSE @]
    /\ browser_state' = IF raised THEN "crashed" ELSE browser_state
    /\ result' = [result EXCEPT ![s] =
                     IF CleanupPropagates(raised) THEN "exception" ELSE @]
    /\ sess_state' = [sess_state EXCEPT ![s] =
                         IF result'[s] = "success" THEN "Completed"
                         ELSE IF result'[s] = "cancelled" THEN "Cancelled"
                         ELSE "Failed"]
    /\ permits_held' = [permits_held EXCEPT ![s] =
                           @ - (IF semaphore_acquired[s] THEN 1 ELSE 0)]
    /\ sem_value' = sem_value + (IF semaphore_acquired[s] THEN 1 ELSE 0)
    /\ UNCHANGED <<runVars_but_sem, session_id, semaphore_acquired,
                   fault, error, login_attempt, login_failure, login_successful,
                   dashboard_visible, chatbot_tasks, pipeVars, extVars>>

\* ------------------------------------------------------------ environment
\* The browser process dies or loses its connection.
BrowserCrash ==
    /\ run_pc = "gathering"
    /\ browser_state = "connected"
    /\ browser_state' = "crashed"
    /\ pages' = PagesAfterDisconnect(pages)
    /\ context' = ContextsAfterDisconnect(context)
    /\ UNCHANGED <<runVars, session_id, sess_state, semaphore_acquired,
                   permits_held, result, fault, error, login_attempt,
                   login_failure, login_successful, dashboard_visible,
                   closed_again, chatbot_tasks, pipeVars, extVars>>

\* ------------------------------------------------- stress_test, after gather
\* The result loop: an Exception counts as failed, a dict by its 'success'
\* entry, anything else - a CancelledError, which is no Exception - as
\* successful.
SessionSucceeded(s) == result[s] \in {"success", "cancelled"}

GatherReturns ==
    /\ run_pc = "gathering"
    /\ GatherDone
    /\ run_pc' = "summarised"
    /\ successful_sessions' = Cardinality({s \in Sessions : SessionSucceeded(s)})
    /\ failed_sessions' = Cardinality({s \in Sessions : ~SessionSucceeded(s)})
    /\ UNCHANGED <<numUsers, sessions_per_user, max_contexts, semaphore,
                   semaphore_limit, sem_value, browser_state, sessVars, pipeVars,
                   extVars>>

\* main: after stress_test returns, "await browser.close()".
MainClosesBrowser ==
    /\ run_pc = "summarised"
    /\ run_pc' = "done"
    /\ browser_state' = IF browser_state = "connected" THEN "closed" ELSE browser_state
    /\ UNCHANGED <<numUsers, sessions_per_user, max_contexts, semaphore,
                   semaphore_limit, sem_value, successful_sessions,
                   failed_sessions, sessVars, pipeVars, extVars>>

\* ------------------------------------------------ cancellation of a task
\* The awaits at which a CancelledError can be delivered to the task of
\* session s: any await of the try block, and the close() calls of the two
\* finally blocks when there is something to close.
AtAwait(s) ==
    \/ sess_state[s] \in {"SettingUp", "CtxReady", "Authenticating",
                          "PreparingTargets"}
    \/ sess_state[s] = "Interacting" /\ pipeline_pc = "none"
    \/ /\ sess_state[s] = "ClosingPages"
       /\ BrowserConnected
       /\ \E p \in PageIds : pages[s][p] = "open"
    \/ /\ sess_state[s] = "TearingDown"
       /\ BrowserConnected
       /\ context[s] = "open"

\* Where the CancelledError takes the task.  It is no Exception, so no
\* "except Exception" stops it: from the try blocks it runs the finally
\* blocks; raised inside a finally block it leaves that block at once.
AfterCancel(state) ==
    CASE state \in {"Authenticating", "PreparingTargets", "Interacting"}
             -> "ClosingPages"
      [] state \in {"CtxReady", "ClosingPages"} -> "TearingDown"
      [] OTHER -> "Cancelled"

\* The task of session s is cancelled from outside (task.cancel(), or the
\* cancellation of the gather it belongs to).
TaskCancelled(s) ==
    /\ run_pc = "gathering"
    /\ sess_state[s] = "Pending" \/ AtAwait(s)
    /\ sess_state' = [sess_state EXCEPT ![s] = AfterCancel(@)]
    /\ result' = [result EXCEPT ![s] = "cancelled"]
    /\ error' = [error EXCEPT ![s] = "cancelled"]
    /\ LET releases == IF sess_state[s] = "SettingUp" /\ semaphore_acquired[s]
                       THEN 1 ELSE 0
       IN  /\ permits_held' = [permits_held EXCEPT ![s] = @ - releases]
           /\ sem_value' = sem_value + releases
    /\ UNCHANGED <<runVars_but_sem, browser_state, session_id,
                   semaphore_acquired, context, fault, login_attempt,
                   login_failure, login_successful, dashboard_visible, pages,
                   closed_again, chatbot_tasks, pipeVars, extVars>>

\* ------------------------------- interact_with_chatbot: continuous pipeline
\* fixed worker cap: num_workers = min(len(questions_to_use), 10)
PipelineWorkerCap == 10

NumWorkers(pool) == Min(Len(pool), PipelineWorkerCap)

Workers == DOMAIN worker_pc

\* Python truthiness of continuous_iterations: None and 0 are false.
Truthy(ci) == ci # None /\ ci[1] # 0

\* The iteration budget in units, 0 when no budget is in force.
BudgetUnits ==
    IF Truthy(continuous_iterations)
    THEN continuous_iterations[1] * Len(question_pool) ELSE 0

\* Python integers are unbounded.  The counters are kept exactly up to
\* CountCap (three cycles past the budget) and, beyond it, two cycles are
\* taken off: the code reads them only as counter % len(pool) and in the
\* comparison with continuous_iterations * len(pool), which a folded
\* counter still exceeds.
CountCap == BudgetUnits + 3 * Len(question_pool)

Fold(c, poolLen) == IF c > CountCap THEN c - 2 * poolLen ELSE c

BudgetExhaustedStrict ==
    /\ Truthy(continuous_iterations)
    /\ total_questions_processed > continuous_iterations[1] * Len(question_pool)

BudgetExhaustedNoneAsZero == total_questions_processed >= BudgetUnits

\* if continuous_iterations and
\*    total_questions_processed >= continuous_iterations * len(question_pool)
BudgetExhausted ==
    /\ Truthy(continuous_iterations)
    /\ total_questions_processed >= continuous_iterations[1] * Len(question_pool)

MayClaimLockStep(w) ==
    /\ should_continue
    /\ ~BudgetExhausted
    /\ \/ worker_pc[w] = "created"
       \/ \A v \in Workers \ {w} : worker_pc[v] # "asking"

\* The worker goes round its loop: "while should_continue" holds and the
\* budget test inside the lock does not break.
MayClaim(w) == should_continue /\ ~BudgetExhausted

Shuffles(seq) ==
    {p \in [1..Len(seq) -> 1..Len(seq)] :
        \A i \in 1..Len(seq) : \E j \in 1..Len(seq) : p[j] = seq[i]}

\* One pass of "while should_continue: async with counter_lock: ..." up to
\* the await of ask_single_question.  The block under the lock contains no
\* await, so the lock is free whenever a worker reaches it.
LoopHead(w) ==
    IF MayClaim(w)
    THEN /\ question_counter' = Fold(question_counter + 1, Len(question_pool))
         /\ total_questions_processed' =
                Fold(total_questions_processed + 1, Len(question_pool))
         /\ IF (question_counter + 1) % Len(question_pool) = 0
            THEN question_pool' \in Shuffles(question_pool)
            ELSE question_pool' = question_pool
         /\ worker_pc' = [worker_pc EXCEPT ![w] = "asking"]
         /\ UNCHANGED should_continue
    ELSE /\ should_continue' = FALSE
         /\ worker_pc' = [worker_pc EXCEPT ![w] = "exited"]
         /\ UNCHANGED <<question_counter, total_questions_processed,
                        question_pool>>

\* question_metrics.append(...): once when ask_single_question returns its
\* metric and once in the except branch when it raises.
MetricsAppended(received) == 1

\* A worker task created by asyncio.gather runs for the first time.
WorkerStart(w) ==
    /\ pipeline_pc = "gathering"
    /\ worker_pc[w] = "created"
    /\ LoopHead(w)
    /\ UNCHANGED <<extVars, runVars, browser_state, sessVars, continuous_iterations,
                   question_metrics, unit_failed, pipeline_pc>>

\* ask_single_question returns its metric or raises; either way one metric
\* is appended, and the worker goes round its loop again at once.
UnitDone(w, received) ==
    /\ pipeline_pc \in {"gathering", "cancelling"}
    /\ worker_pc[w] = "asking"
    /\ question_metrics' =
           Fold(question_metrics + MetricsAppended(received), Len(question_pool))
    /\ unit_failed' = (unit_failed \/ ~received)
    /\ LoopHead(w)
    /\ UNCHANGED <<extVars, runVars, browser_state, sessVars, continuous_iterations,
                   pipeline_pc>>

\* asyncio.gather(*pipeline_tasks) returns: every worker has left its loop,
\* and interact_with_chatbot returns.
PipelineReturns ==
    /\ pipeline_pc = "gathering"
    /\ \A w \in Workers : worker_pc[w] = "exited"
    /\ pipeline_pc' = "returned"
    /\ UNCHANGED <<extVars, runVars, browser_state, sessVars, continuous_iterations,
                   question_pool, question_counter, total_questions_processed,
                   should_continue, worker_pc, question_metrics,
                   unit_failed>>

\* The session task is cancelled from outside while the pipeline runs.
\* gather cancels every worker task: a worker that has not run yet never
\* runs; a worker inside ask_single_question is either interrupted
\* (CancelledError is not an Exception, so no metric is appended) or is
\* awaiting inside one of the bare "except: pass" blocks of
\* ask_single_question, which swallow the cancellation: it then goes on as
\* if nothing had happened.  `interrupted` is the set of workers the
\* cancellation reaches.
Cancel(s, interrupted) ==
    /\ sess_state[s] = "Interacting"
    /\ pipeline_pc = "gathering"
    /\ interrupted \subseteq {w \in Workers : worker_pc[w] = "asking"}
    /\ worker_pc' = [w \in Workers |->
                        IF worker_pc[w] = "created" \/ w \in interrupted
                        THEN "exited" ELSE worker_pc[w]]
    /\ pipeline_pc' = "cancelling"
    /\ UNCHANGED <<extVars, runVars, browser_state, sessVars, continuous_iterations,
                   question_pool, question_counter, total_questions_processed,
                   should_continue, question_metrics, unit_failed>>

\* Every worker task is done after a cancellation: gather raises
\* CancelledError, which passes every "except Exception" up to the finally
\* block of run_session_with_context.
CancelPropagates(s) ==
    /\ sess_state[s] = "Interacting"
    /\ pipeline_pc = "cancelling"
    /\ \A w \in Workers : worker_pc[w] = "exited"
    /\ pipeline_pc' = "cancelled"
    /\ sess_state' = [sess_state EXCEPT ![s] = "ClosingPages"]
    /\ result' = [result EXCEPT ![s] = "cancelled"]
    /\ error' = [error EXCEPT ![s] = "cancelled"]
    /\ UNCHANGED <<extVars, runVars, browser_state, session_id,
                   semaphore_acquired, permits_held, context, fault,
                   login_attempt, login_failure, login_successful,
                   dashboard_visible, pages, closed_again, chatbot_tasks,
                   continuous_iterations,
                   question_pool, question_counter, total_questions_processed,
                   should_continue, worker_pc, question_metrics,
                   unit_failed>>

\* One stress-test session that has reached its interaction phase in
\* pipeline mode (continuous_mode and concurrent_questions both set).
TheSession == <<1, 1>>

\* One session of a run has logged in, opened course 1 and is about to
\* interact with its chatbot.
SessionInteracting ==
    /\ numUsers = 1
    /\ sessions_per_user = 1
    /\ max_contexts = 1
    /\ run_pc = "gathering"
    /\ semaphore = TRUE
    /\ semaphore_limit = SemaphoreLimit(1, 1)
    /\ sem_value = SemaphoreLimit(1, 1)
    /\ successful_sessions = 0
    /\ failed_sessions = 0
    /\ browser_state = "connected"
    /\ session_id = [s \in {TheSession} |-> StressSessionId(1, 1)]
    /\ sess_state = [s \in {TheSession} |-> "Interacting"]
    /\ semaphore_acquired = [s \in {TheSession} |-> FALSE]
    /\ permits_held = [s \in {TheSession} |-> 0]
    /\ context = [s \in {TheSession} |-> "open"]
    /\ result = [s \in {TheSession} |-> "none"]
    /\ fault = [s \in {TheSession} |-> FALSE]
    /\ error = [s \in {TheSession} |-> "none"]
    /\ login_attempt = [s \in {TheSession} |-> 1]
    /\ login_failure = [s \in {TheSession} |-> "none"]
    /\ login_successful = [s \in {TheSession} |-> TRUE]
    /\ dashboard_visible = [s \in {TheSession} |-> TRUE]
    /\ pages = [s \in {TheSession} |->
                   [NoPages EXCEPT !["login"] = "closed", !["course_1"] = "open"]]
    /\ closed_again = [s \in {TheSession} |-> FALSE]
    /\ chatbot_tasks = [s \in {TheSession} |-> {1}]

PipelineStart ==
    /\ SessionInteracting
    /\ continuous_iterations \in {None} \cup {Some(n) : n \in 0..MaxIter}
    /\ \E P \in 1..MaxPool : question_pool = [i \in 1..P |-> i]
    /\ question_counter = 0
    /\ total_questions_processed = 0
    /\ should_continue = TRUE
    /\ worker_pc = [w \in 1..NumWorkers(question_pool) |-> "created"]
    /\ question_metrics = 0
    /\ unit_failed = FALSE
    /\ pipeline_pc = "gathering"

PipelineInit == PipelineStart /\ ExtIdle

PipelineNext ==
    \/ \E w \in Workers : WorkerStart(w)
    \/ \E w \in Workers, received \in BOOLEAN : UnitDone(w, received)
    \/ PipelineReturns
    \/ \E interrupted \in SUBSET Workers : Cancel(TheSession, interrupted)
    \/ CancelPropagates(TheSession)
    \/ InteractionEnds(TheSession)
    \/ \E raised \in BOOLEAN : UserSessionFinally(TheSession, raised)
    \/ \E raised \in BOOLEAN : Cleanup(TheSession, raised)

PipelineSpec == PipelineInit /\ [][PipelineNext]_vars

\* The event loop runs every ready task, and every unit execution ends.
PipelineFairness ==
    /\ \A w \in 1..MaxPool : WF_vars(w \in Workers /\ WorkerStart(w))
    /\ \A w \in 1..MaxPool :
          WF_vars(w \in Workers /\ \E received \in BOOLEAN : UnitDone(w, received))
    /\ WF_vars(PipelineReturns)
    /\ WF_vars(CancelPropagates(TheSession))
    /\ WF_vars(InteractionEnds(TheSession))
    /\ WF_vars(\E raised \in BOOLEAN : UserSessionFinally(TheSession, raised))
    /\ WF_vars(\E raised \in BOOLEAN : Cleanup(TheSession, raised))

PipelineFairSpec == PipelineInit /\ [][PipelineNext]_vars /\ PipelineFairness

SessionStep(s) ==
    \/ TaskStart(s)
    \/ \E outcome \in {"ok", "raises", "None"} : NewContextReturns(s, outcome)
    \/ \E page_ok \in BOOLEAN : SessionBegin(s, page_ok)
    \/ \E outcome \in LoginOutcomes : LoginAttempt(s, outcome)
    \/ \E raised \in BOOLEAN : CardsChecked(s, raised)
    \/ \E first \in [1..2 -> OpenOutcomes], pagesLeft, retry_ok \in [1..2 -> BOOLEAN] :
          TargetsOpened(s, first, pagesLeft, retry_ok)
    \/ InteractionEnds(s)
    \/ \E raised \in BOOLEAN : UserSessionFinally(s, raised)
    \/ \E raised \in BOOLEAN : Cleanup(s, raised)

Next ==
    \/ StressTestStart
    \/ \E s \in Sessions : SessionStep(s)
    \/ BrowserCrash
    \/ GatherReturns
    \/ MainClosesBrowser

Spec == Init /\ [][Next]_vars

\* The same run with tasks that may be cancelled from outside.
LifecycleNext ==
    \/ Next
    \/ \E s \in Sessions : TaskCancelled(s)

LifecycleSpec == Init /\ [][LifecycleNext]_vars

\* ------------------------------ run_session_with_context under any caller
\* The sessions of one gather, called with either id format (stress_test's
\* "User<i>_Session<j>_<name>" or main's "User_<i>_<name>") and with or
\* without a gate of any size.
CallInit ==
    /\ numUsers \in 1..MaxSessions
    /\ sessions_per_user = 1
    /\ max_contexts \in 1..MaxContexts
    /\ run_pc = "gathering"
    /\ semaphore \in BOOLEAN
    /\ semaphore_limit = (IF semaphore THEN max_contexts ELSE 0)
    /\ sem_value = semaphore_limit
    /\ successful_sessions = 0
    /\ failed_sessions = 0
    /\ browser_state = "connected"
    /\ \E stressFormat \in BOOLEAN :
          \* the size of the gate matters to the calls that acquire
          /\ ~semaphore \/ stressFormat => max_contexts = 1
          /\ session_id = [s \in (1..numUsers) \X {1} |->
                              IF stressFormat THEN StressSessionId(s[1], 1)
                              ELSE NormalSessionId(s[1])]
    /\ sess_state = [s \in (1..numUsers) \X {1} |-> "Pending"]
    /\ semaphore_acquired = [s \in (1..numUsers) \X {1} |-> FALSE]
    /\ permits_held = [s \in (1..numUsers) \X {1} |-> 0]
    /\ context = [s \in (1..numUsers) \X {1} |-> "None"]
    /\ result = [s \in (1..numUsers) \X {1} |-> "none"]
    /\ fault = [s \in (1..numUsers) \X {1} |-> FALSE]
    /\ error = [s \in (1..numUsers) \X {1} |-> "none"]
    /\ login_attempt = [s \in (1..numUsers) \X {1} |-> 0]
    /\ login_failure = [s \in (1..numUsers) \X {1} |-> "none"]
    /\ login_successful = [s \in (1..numUsers) \X {1} |-> FALSE]
    /\ dashboard_visible = [s \in (1..numUsers) \X {1} |-> FALSE]
    /\ pages = [s \in (1..numUsers) \X {1} |-> NoPages]
    /\ closed_again = [s \in (1..numUsers) \X {1} |-> FALSE]
    /\ chatbot_tasks = [s \in (1..numUsers) \X {1} |-> {}]
    /\ PipelineIdle
    /\ ExtIdle

CallNext ==
    \/ \E s \in Sessions : SessionStep(s)
    \/ BrowserCrash
    \/ GatherReturns
    \/ MainClosesBrowser

CallSpec == CallInit /\ [][CallNext]_vars

\* ================================================================= claims
SettingUp == {s \in Sessions : sess_state[s] = "SettingUp"}

\* C1 (as claimed): the number of sessions that are in SettingUp at the same
\* time never exceeds max_concurrent_contexts.
C1_AdmissionBound == Cardinality(SettingUp) <= max_contexts

\* C2 (as claimed): a session launched by stress_test that is in SettingUp
\* holds one permit of the gate.
C2_PermitBeforeSetup ==
    \A s \in Sessions : sess_state[s] = "SettingUp" => permits_held[s] = 1

\* C3: a session that is past SettingUp (authenticating, preparing targets,
\* interacting, tearing down or terminal) holds no permit.
C3_PermitOnlyDuringSetup ==
    \A s \in Sessions :
        sess_state[s] \notin {"Pending", "SettingUp"} => permits_held[s] <= 0

\* A session that acquired the gate (its id did not parse and a gate was
\* passed) has created its context and no longer holds the permit.
C3_Witness ==
    \E s \in Sessions :
        /\ semaphore
        /\ ~UserIndexParses(session_id[s])
        /\ sess_state[s] = "Authenticating"
        /\ context[s] = "open"
        /\ permits_held[s] = 0

\* C4: the gate of a stress_test run has exactly
\* max(max_concurrent_contexts, numUsers * sessions_per_user) permits.
C4_GateSize ==
    run_pc # "start" =>
        /\ semaphore
        /\ semaphore_limit >= max_contexts
        /\ semaphore_limit >= numUsers * sessions_per_user
        /\ semaphore_limit \in {max_contexts, numUsers * sessions_per_user}
        /\ (\A s \in Sessions : sess_state[s] = "Pending") => sem_value = semaphore_limit

\* A run with more planned sessions than max_concurrent_contexts: the gate
\* has one permit per planned session.
C4_Witness ==
    /\ run_pc = "gathering"
    /\ numUsers * sessions_per_user > max_contexts
    /\ semaphore_limit = numUsers * sessions_per_user

\* C10: a session none of whose own collaborator calls failed ends with
\* success = True whatever happened to the other sessions (the browser itself
\* staying up), and stress_test summarises only after every session ended.
C10_Isolation ==
    /\ \A s \in Sessions :
          (Terminal(s) /\ ~fault[s] /\ browser_state # "crashed")
              => result[s] = "success"
    /\ run_pc \in {"summarised", "done"} =>
          /\ \A s \in Sessions : Terminal(s)
          /\ successful_sessions + failed_sessions = Cardinality(Sessions)
          /\ successful_sessions >= Cardinality({s \in Sessions : ~fault[s]})
             \/ browser_state = "crashed"

\* The run ended; one session failed fatally and another one completed.
C10_Witness ==
    /\ run_pc = "done"
    /\ browser_state = "closed"
    /\ \E k, s \in Sessions :
          /\ k # s
          /\ fault[k] /\ sess_state[k] = "Failed"
          /\ ~fault[s] /\ sess_state[s] = "Completed"

\* ------------------------------------------------------- pipeline claims
Asking == {w \in Workers : worker_pc[w] = "asking"}

\* C5: with continuous_iterations = N >= 1 and pool size P the pipeline never
\* claims more than N*P + W - 1 units, it has claimed and executed at least
\* N*P units when it returns, and no unit is claimed once N*P units have
\* been claimed (the count starts at 0 and grows by one per claim, so this
\* is: the count never passes N*P).
C5_ExactCount ==
    Truthy(continuous_iterations) =>
        LET N == continuous_iterations[1]
            P == Len(question_pool)
        IN  /\ total_questions_processed <= N * P + Cardinality(Workers) - 1
            /\ total_questions_processed <= N * P
            /\ pipeline_pc = "returned" =>
                  /\ total_questions_processed >= N * P
                  /\ question_metrics = total_questions_processed

\* A pipeline of several workers and several cycles has returned.
C5_Witness ==
    /\ pipeline_pc = "returned"
    /\ continuous_iterations = Some(MaxIter)
    /\ Cardinality(Workers) >= 2
    /\ question_metrics = MaxIter * Len(question_pool)

\* C6 (as claimed): whenever continuous_iterations is an integer (0
\* included) and every unit execution ends, the workers exit,
\* interact_with_chatbot returns and the session reaches its teardown
\* (runs that are cancelled from outside are left aside).
C6_PipelineTerminates ==
    (continuous_iterations # None) ~>
        \/ sess_state[TheSession] \in
               {"ClosingPages", "TearingDown", "Completed", "Failed", "Cancelled"}
        \/ pipeline_pc \in {"cancelling", "cancelled"}

C8_StopLetsUnitsFinish ==
    pipeline_pc = "cancelled" =>
        /\ ~should_continue
        /\ question_metrics = total_questions_processed

\* C9: with continuous_iterations = None the stop flag is never set and a
\* worker leaves its loop only through a cancellation: every worker that has
\* started is in flight, after a full cycle and after a failed unit alike.
C9_Unbounded ==
    continuous_iterations = None =>
        /\ should_continue
        /\ pipeline_pc \notin {"returned"}
        /\ pipeline_pc = "gathering" =>
              \A w \in Workers : worker_pc[w] \in {"created", "asking"}
        /\ \A w \in Workers :
              worker_pc[w] = "exited" => pipeline_pc \in {"cancelling", "cancelled"}

\* More than a full cycle has been claimed, a unit has failed, and every
\* worker is still in flight.
C9_Witness ==
    /\ continuous_iterations = None
    /\ pipeline_pc = "gathering"
    /\ unit_failed
    /\ question_counter > Len(question_pool)
    /\ Asking = Workers
\* --------------------------- ResourceCalculator.calculate_optimal_config
MIN_SESSIONS_PER_USER == 1
MAX_SESSIONS_PER_USER == 50
MIN_CONCURRENT_CONTEXTS == 1
\* No upper limit is set.
MAX_CONCURRENT_CONTEXTS == None

LessRestrictive(a, b) == Max(a, b)

\* min(max_contexts_memory, max_contexts_cpu)
MoreRestrictive(a, b) == Min(a, b)

\* "Apply upper limit only if MAX_CONCURRENT_CONTEXTS is set"
UpperLimit(contexts, limit) ==
    IF limit # None THEN Min(contexts, limit[1]) ELSE contexts

ConcurrentContexts(memory, cpu) ==
    UpperLimit(Max(MIN_CONCURRENT_CONTEXTS, MoreRestrictive(memory, cpu)),
               MAX_CONCURRENT_CONTEXTS)

\* sessions_per_user as computed from the ceiling, then reduced when the
\* ceiling is below sessions_per_user * num_users.
SessionsPerUser(contexts, num_users) ==
    LET first == IF num_users > 0
                 THEN Max(MIN_SESSIONS_PER_USER,
                          Min(contexts \div num_users, MAX_SESSIONS_PER_USER))
                 ELSE MIN_SESSIONS_PER_USER
        required_contexts == first * num_users
    IN  IF contexts < required_contexts
        THEN Max(MIN_SESSIONS_PER_USER,
                 IF num_users > 0 THEN contexts \div num_users ELSE 1)
        ELSE first

\* calculate_optimal_config(num_users) returns
\* (sessions_per_user, max_concurrent_contexts).
CalculateOptimalConfig ==
    /\ optimal_config = None
    /\ LET contexts == ConcurrentContexts(max_contexts_memory, max_contexts_cpu)
       IN  optimal_config' = <<SessionsPerUser(contexts, numUsers), contexts>>
    /\ UNCHANGED <<runVars, browser_state, sessVars, pipeVars, trackVars,
                   configVars, distVars, claimVars, moreVars, max_contexts_memory, max_contexts_cpu, schedVars>>

\* Nothing of a run has started.
NoRun ==
    /\ max_contexts = 1
    /\ run_pc = "start"
    /\ semaphore = FALSE
    /\ semaphore_limit = 0
    /\ sem_value = 0
    /\ successful_sessions = 0
    /\ failed_sessions = 0
    /\ browser_state = "connected"
    /\ session_id = <<>>
    /\ sess_state = <<>>
    /\ semaphore_acquired = <<>>
    /\ permits_held = <<>>
    /\ context = <<>>
    /\ result = <<>>
    /\ fault = <<>>
    /\ error = <<>>
    /\ login_attempt = <<>>
    /\ login_failure = <<>>
    /\ login_successful = <<>>
    /\ dashboard_visible = <<>>
    /\ pages = <<>>
    /\ closed_again = <<>>
    /\ chatbot_tasks = <<>>

RunIdle == NoRun /\ PipelineIdle

\* The two ceilings are what the machine's free memory and idle CPU give.
SizingInit ==
    /\ numUsers \in 1..MaxSessions
    /\ sessions_per_user = 1
    /\ RunIdle
    /\ TrackerIdle
    /\ ConfigIdle
    /\ DistIdle
    /\ ClaimIdle
    /\ MoreIdle
    /\ max_contexts_memory \in 0..MaxCeiling
    /\ max_contexts_cpu \in 0..MaxCeiling
    /\ optimal_config = None
    /\ session_batch_size = None
    /\ session_configs = <<>>
    /\ tasks = <<>>
    /\ batch_num = 0
    /\ task_objects = <<>>
    /\ sched_pc = "none"
    /\ session_setup_delay = 0
    /\ session_batch_delay = 0
    /\ batch_processing = DefaultBatchProcessing
    /\ schedule_log = <<>>

SizingNext == CalculateOptimalConfig

SizingSpec == SizingInit /\ [][SizingNext]_vars

\* ------------------------------------ stress_test: building the task list
\* One session descriptor; user_index and session_idx count from 0.
SessionConfig(user_index, session_idx) ==
    [user_index |-> user_index, session_idx |-> session_idx,
     session_id |-> StressSessionId(user_index + 1, session_idx + 1)]

\* for session_idx in range(sessions_per_user)
RECURSIVE SessionLoop(_, _, _)
SessionLoop(user_index, session_idx, per_user) ==
    IF session_idx >= per_user THEN <<>>
    ELSE <<SessionConfig(user_index, session_idx)>>
         \o SessionLoop(user_index, session_idx + 1, per_user)

\* for user_index, user in enumerate(users)
RECURSIVE UserLoop(_, _, _)
UserLoop(user_index, num_users, per_user) ==
    IF user_index >= num_users THEN <<>>
    ELSE SessionLoop(user_index, 0, per_user)
         \o UserLoop(user_index + 1, num_users, per_user)

\* "if session_batch_size and session_batch_size > 0"
Batching(size) == size # None /\ size[1] > 0

NumBatchesFloor(total_sessions, size) == total_sessions \div size

\* num_batches = (total_sessions + session_batch_size - 1) // session_batch_size
NumBatches(total_sessions, size) == (total_sessions + size - 1) \div size

BatchStart(b, size) == b * size

BatchEnd(b, size, total_sessions) ==
    Min(BatchStart(b, size) + size, total_sessions)

\* seq[start:end]
Slice(seq, start, end) == SubSeq(seq, start + 1, end)

\* What the scheduler did, in order: a coroutine was created for descriptor
\* number task, the scheduler slept, task number task began to execute.
Event(ev, task) == [ev |-> ev, task |-> task]

\* "for config in batch_configs": the descriptors first + 1 .. last get their
\* coroutine, with a sleep of session_setup_delay after each but the last.
RECURSIVE CreationEvents(_, _, _)
CreationEvents(first, last, setup_delay) ==
    IF first >= last THEN <<>>
    ELSE <<Event("created", first + 1)>>
         \o (IF setup_delay > 0 /\ first + 1 < last
             THEN <<Event("setup_delay", 0)>> ELSE <<>>)
         \o CreationEvents(first + 1, last, setup_delay)

BuildConfigs ==
    /\ sched_pc = "start"
    /\ LET configs == UserLoop(0, numUsers, sessions_per_user)
       IN  /\ session_configs' = configs
           /\ sched_pc' =
                IF Batching(session_batch_size)
                THEN IF NumBatches(Len(configs), session_batch_size[1]) > 0
                     THEN "batching" ELSE "created"
                ELSE "sequential"
    /\ UNCHANGED <<runVars, browser_state, sessVars, pipeVars, trackVars,
                   configVars, distVars, claimVars, moreVars, sizingVars,
                   schedConfig, tasks, batch_num, task_objects, schedule_log>>

\* One round of "for batch_num in range(num_batches)" up to its sleep: the
\* coroutine of every descriptor of the slice is appended to tasks.  Here
\* batch_num is the number of the round that comes next.
CreateBatch ==
    /\ sched_pc = "batching"
    /\ LET size == session_batch_size[1]
           total_sessions == Len(session_configs)
           num_batches == NumBatches(total_sessions, size)
           batch_start == BatchStart(batch_num, size)
           batch_end == BatchEnd(batch_num, size, total_sessions)
           batch_configs == Slice(session_configs, batch_start, batch_end)
       IN  /\ tasks' = tasks \o batch_configs
           /\ schedule_log' = schedule_log
                \o CreationEvents(batch_start, batch_end, session_setup_delay)
           /\ sched_pc' =
                IF batch_num < num_batches - 1 /\ session_batch_delay > 0
                THEN "batch_delay"
                ELSE IF batch_num + 1 < num_batches THEN "batching"
                ELSE "created"
           /\ batch_num' = batch_num + 1
    /\ UNCHANGED <<runVars, browser_state, sessVars, pipeVars, trackVars,
                   configVars, distVars, claimVars, moreVars, sizingVars,
                   schedConfig, session_configs, task_objects>>

\* "await asyncio.sleep(session_batch_delay)" returns; the next round begins.
BatchDelayElapsed ==
    /\ sched_pc = "batch_delay"
    /\ schedule_log' = Append(schedule_log, Event("batch_delay", 0))
    /\ sched_pc' = "batching"
    /\ UNCHANGED <<runVars, browser_state, sessVars, pipeVars, trackVars,
                   configVars, distVars, claimVars, moreVars, sizingVars,
                   schedConfig, session_configs, tasks, batch_num,
                   task_objects>>

\* Without batching: one round of "for config in session_configs", with its
\* sleep of session_setup_delay unless the descriptor is the last one.
CreateNext ==
    /\ sched_pc = "sequential"
    /\ tasks' = Append(tasks, session_configs[Len(tasks) + 1])
    /\ schedule_log' = schedule_log
          \o <<Event("created", Len(tasks) + 1)>>
          \o (IF session_setup_delay > 0 /\ Len(tasks) + 1 < Len(session_configs)
              THEN <<Event("setup_delay", 0)>> ELSE <<>>)
    /\ sched_pc' = IF Len(tasks) + 1 < Len(session_configs)
                   THEN "sequential" ELSE "created"
    /\ UNCHANGED <<runVars, browser_state, sessVars, pipeVars, trackVars,
                   configVars, distVars, claimVars, moreVars, sizingVars,
                   schedConfig, session_configs, batch_num, task_objects>>

\* "if not tasks: return", else
\* task_objects = [asyncio.create_task(task) for task in tasks]: every task
\* is scheduled and begins to execute at the await of the gather.
LaunchTasks ==
    /\ sched_pc = "created"
    /\ IF tasks = <<>>
       THEN /\ sched_pc' = "returned"
            /\ UNCHANGED <<task_objects, schedule_log>>
       ELSE /\ sched_pc' = "launched"
            /\ task_objects' = tasks
            /\ schedule_log' = schedule_log
                  \o [i \in 1..Len(tasks) |-> Event("started", i)]
    /\ UNCHANGED <<runVars, browser_state, sessVars, pipeVars, trackVars,
                   configVars, distVars, claimVars, moreVars, sizingVars,
                   schedConfig, session_configs, tasks, batch_num>>

ScheduleInit ==
    /\ numUsers \in 1..MaxSessions
    /\ sessions_per_user \in 1..MaxSessions
    /\ RunIdle
    /\ TrackerIdle
    /\ ConfigIdle
    /\ DistIdle
    /\ ClaimIdle
    /\ MoreIdle
    /\ max_contexts_memory = 0
    /\ max_contexts_cpu = 0
    /\ optimal_config = None
    /\ session_batch_size \in {None} \cup {Some(size) : size \in 0..MaxBatch}
    /\ session_configs = <<>>
    /\ tasks = <<>>
    /\ batch_num = 0
    /\ task_objects = <<>>
    /\ sched_pc = "start"
    /\ session_setup_delay \in 0..MaxDelay
    /\ session_batch_delay \in 0..MaxDelay
    /\ batch_processing \in [enabled : BOOLEAN, wait_for_completion : BOOLEAN]
    /\ schedule_log = <<>>

ScheduleNext ==
    \/ BuildConfigs
    \/ CreateBatch
    \/ BatchDelayElapsed
    \/ CreateNext
    \/ LaunchTasks

ScheduleSpec == ScheduleInit /\ [][ScheduleNext]_vars

\* The reasons for which a session cannot go on: the browser is gone before
\* setup, no context or login page could be created, the login failed, the
\* dashboard never showed its cards, the targets could not be opened.
SessionFatalReasons ==
    {"browser_not_connected", "context_creation", "login_page", "login",
     "dashboard_cards", "targets"}

\* C11: a session that met a session-fatal error (environment creation,
\* authentication or target opening failed) has a recorded result with
\* success = False; the error is never propagated to the caller as an
\* exception, whatever the id format and whether or not a gate was passed.
C11_FatalErrorsRecorded ==
    \A s \in Sessions :
        error[s] \in SessionFatalReasons => result[s] = "failed"

C11_Witness ==
    \E s \in Sessions :
        /\ sess_state[s] = "Failed"
        /\ error[s] = "login"
        /\ result[s] = "failed"
        /\ context[s] = "closed"

\* C12: the lifecycle is strictly sequential.  A session that authenticates
\* has its context; a session that opens targets or interacts has seen the
\* dashboard become visible (not merely no exception from the login); a
\* session that interacts has, besides, opened at least one target.
C12_SequentialLifecycle ==
    \A s \in Sessions :
        /\ sess_state[s] \in {"Authenticating", "PreparingTargets", "Interacting"}
              => context[s] # "None"
        /\ sess_state[s] \in {"PreparingTargets", "Interacting"}
              => dashboard_visible[s] /\ pages[s]["login"] # "none"
        /\ sess_state[s] = "Interacting"
              => \E p \in {"course_1", "course_2"} : pages[s][p] # "none"

C12_Witness ==
    \E s \in Sessions :
        /\ sess_state[s] = "Interacting"
        /\ dashboard_visible[s]
        /\ pages[s]["course_1"] = "none"
        /\ pages[s]["course_2"] = "open"

\* C13: the login is given up after exactly login_max_retries = 3 attempts:
\* a session whose login failed for good has made 3 attempts, none of which
\* showed the dashboard, is recorded as failed and never ends as Completed;
\* and a session still in the loop has made fewer than 3.
C13_LoginRetryExhaustion ==
    \A s \in Sessions :
        /\ error[s] = "login"
              => /\ login_attempt[s] = 3
                 /\ ~login_successful[s]
                 /\ ~dashboard_visible[s]
                 /\ result[s] = "failed"
                 /\ sess_state[s] \in {"ClosingPages", "TearingDown", "Failed"}
        /\ sess_state[s] = "Authenticating" /\ ~login_successful[s]
              => login_attempt[s] < 3

C13_Witness ==
    \E s \in Sessions :
        /\ sess_state[s] = "Failed"
        /\ error[s] = "login"
        /\ login_attempt[s] = 3
        /\ BrowserConnected

\* C14 (as claimed): a login attempt that ends in a fatal error (the
\* credentials were rejected) is never retried, not even when it was the
\* first attempt: no session goes on with the login loop after a rejection.
C14_FatalNeverRetried ==
    \A s \in Sessions :
        sess_state[s] = "Authenticating" /\ ~login_successful[s]
            => login_failure[s] # "rejected"

\* C15 (as claimed): a session fails in PreparingTargets if and only if every
\* target ultimately failed to open: a session that failed for its targets
\* has no course page, and a session that went on to interact has one, be it
\* opened at the first attempt or by the recovery retry.
C15_FailsIffNoTargetOpen ==
    \A s \in Sessions :
        /\ error[s] = "targets"
              => \A p \in {"course_1", "course_2"} : pages[s][p] = "none"
        /\ sess_state[s] = "Interacting"
              => \E p \in {"course_1", "course_2"} : pages[s][p] # "none"

\* C16 (as claimed): teardown runs for every session that created a context,
\* however the session ends (normal completion, failure after setup,
\* external cancellation): when the task has finished, none of its pages and
\* not its context is still open.
C16_TeardownAlwaysRuns ==
    \A s \in Sessions :
        Terminal(s) =>
            /\ context[s] # "open"
            /\ \A p \in PageIds : pages[s][p] # "open"

\* C17: teardown is idempotent.  Neither finally block ever calls close() on
\* a page that is already closed, a session without a context (failed setup)
\* or with a context that is already gone has nothing closed, and no error
\* of the teardown reaches the caller as an exception.
C17_IdempotentTeardown ==
    \A s \in Sessions :
        /\ ~closed_again[s]
        /\ result[s] # "exception"
        /\ context[s] = "None" => \A p \in PageIds : pages[s][p] = "none"

C17_Witness ==
    \E s \in Sessions :
        /\ sess_state[s] = "Completed"
        /\ BrowserConnected
        /\ context[s] = "closed"
        /\ \A p \in PageIds : pages[s][p] = "closed"
        /\ ~closed_again[s]

\* C18 (as claimed): the sizing utility never oversubscribes: with the
\* returned pair, sessions_per_user * numUsers <= max_concurrent_contexts,
\* for every numUsers >= 1.
C18_NoOversubscription ==
    optimal_config # None =>
        optimal_config[1] * numUsers <= optimal_config[2]

\* C19: the returned ceiling is the smaller of the memory ceiling and the
\* CPU ceiling, raised to 1 when below (there is no upper limit, none being
\* configured), and the returned per-user count is floor(ceiling / numUsers)
\* clamped to [1, 50].
C19_SizingFormula ==
    optimal_config # None =>
        LET lower == IF max_contexts_memory < max_contexts_cpu
                     THEN max_contexts_memory ELSE max_contexts_cpu
            ceiling == IF lower < 1 THEN 1 ELSE lower
            share == ceiling \div numUsers
            clamped == IF share < 1 THEN 1 ELSE IF share > 50 THEN 50 ELSE share
        IN  optimal_config = <<clamped, ceiling>>

\* Both clamps act: one user and ceilings above 50.
C19_Witness ==
    /\ optimal_config = <<50, 51>>
    /\ numUsers = 1
    /\ max_contexts_memory = 52
    /\ max_contexts_cpu = 51

\* C20: stress_test launches numUsers * sessions_per_user tasks, one for
\* every (user, replica) and each exactly once, in (user, replica) order,
\* with batching disabled or enabled with any batch size >= 1; with batching
\* the batches are consecutive slices of the descriptor list and there are
\* ceil(total / batch size) of them.  No launch is ever given up.
C20_EverySessionLaunchedOnce ==
    LET total == numUsers * sessions_per_user
        batched == session_batch_size # None /\ session_batch_size[1] >= 1
    IN  /\ sched_pc # "returned"
        /\ batched /\ sched_pc \in {"batching", "batch_delay", "created", "launched"}
              => LET size == session_batch_size[1]
                 IN  /\ Len(tasks) = IF batch_num * size < total
                                     THEN batch_num * size ELSE total
                     /\ (batch_num - 1) * size < total \/ batch_num = 0
                     /\ \A i \in 1..Len(tasks) : tasks[i] = session_configs[i]
        /\ sched_pc = "launched"
              => /\ Len(task_objects) = total
                 /\ \A u \in 0..(numUsers - 1) :
                      \A j \in 0..(sessions_per_user - 1) :
                         Cardinality({i \in 1..Len(task_objects) :
                                         /\ task_objects[i].user_index = u
                                         /\ task_objects[i].session_idx = j}) = 1
                 /\ \A i, k \in 1..Len(task_objects) :
                      i < k =>
                         \/ task_objects[i].user_index < task_objects[k].user_index
                         \/ /\ task_objects[i].user_index = task_objects[k].user_index
                            /\ task_objects[i].session_idx < task_objects[k].session_idx
                 /\ batched => batch_num * session_batch_size[1] >= total

\* Four sessions launched in two batches of 3 and 1.
C20_Witness ==
    /\ sched_pc = "launched"
    /\ session_batch_size = Some(3)
    /\ Len(task_objects) = 4
    /\ batch_num = 2

\* C21: session ids are unique within a run.  The ids generated for two
\* distinct (user, replica) pairs differ, one-digit and two-digit numbers
\* included, and no two tasks of the task list or of the launched tasks
\* carry the same id.
C21_UniqueSessionIds ==
    /\ Cardinality({StressSessionId(p[1], p[2]).text :
                        p \in (1..MaxIndex) \X (1..MaxIndex)})
          = MaxIndex * MaxIndex
    /\ \A i, k \in 1..Len(tasks) :
          i # k => tasks[i].session_id.text # tasks[k].session_id.text
    /\ \A i, k \in 1..Len(task_objects) :
          i # k => task_objects[i].session_id.text # task_objects[k].session_id.text

\* Two users with two replicas each, all four launched.
C21_Witness ==
    /\ sched_pc = "launched"
    /\ numUsers = 2
    /\ sessions_per_user = 2
    /\ Len(task_objects) = 4
    /\ session_batch_size = None

\* C22 (as claimed): with a batch delay > 0 the sessions of a batch have
\* begun to execute when the scheduler waits the batch delay, so that no
\* session of the next batch begins before the delay has elapsed; and with
\* session_setup_delay > 0 two consecutive sessions begin to execute with
\* that delay between them.
C22_BatchOrdering ==
    LET log == schedule_log
        Before(ev, task, p) ==
            \E q \in 1..(p - 1) : log[q].ev = ev /\ log[q].task = task
    IN  \A p \in 1..Len(log) :
          /\ log[p].ev = "batch_delay"
                => \A q \in 1..(p - 1) :
                      log[q].ev = "created" => Before("started", log[q].task, p)
          /\ /\ session_setup_delay > 0
             /\ log[p].ev = "started"
             /\ p > 1
             /\ log[p - 1].ev = "started"
                => FALSE

\* C23 (as claimed): the scheduler waits between batches only when
\* wait_for_completion is true, and the batch settings of the control API
\* (batch_processing) decide whether stress_test batches at all.
C23_BatchWaitFlag ==
    /\ ~batch_processing.wait_for_completion
          => /\ sched_pc # "batch_delay"
             /\ \A p \in 1..Len(schedule_log) : schedule_log[p].ev # "batch_delay"
    /\ sched_pc \in {"batching", "batch_delay"} => batch_processing.enabled

\* ------------------------------------------------------- SessionTracker
TrackIds == 1..MaxTracked

\* The entry register_session stores for a session.
NewSession ==
    [status |-> "active", questions_asked |-> 0, questions_answered |-> 0,
     cycles_completed |-> 0, errors |-> 0]

ActivityTypes ==
    {"question_asked", "question_answered", "cycle_completed", "error",
     "status_change", "other"}

\* The number of metrics stored, all sessions together.
RECURSIVE StoredMetrics(_, _)
StoredMetrics(metrics, ids) ==
    IF ids = {} THEN 0
    ELSE LET id == CHOOSE x \in ids : TRUE
         IN  metrics[id] + StoredMetrics(metrics, ids \ {id})

\* The step just taken: a call of the tracker's interface and how it ended,
\* the elapsing of the interval, or the resumption of a suspended call.
Call(op, id, outcome) == [op |-> op, id |-> id, outcome |-> outcome]

ProceedsUnchecked(id, sessions) == TRUE

\* "if session_id not in self.active_sessions: return"
Proceeds(id, sessions) == id \in DOMAIN sessions

\* self.active_sessions[session_id]: KeyError for a missing key.
Lookup(id, sessions) == IF id \in DOMAIN sessions THEN "returned" ELSE "KeyError"

\* The counters of a session after one activity.
Counted(session, activity_type, status) ==
    CASE activity_type = "question_asked"
             -> [session EXCEPT !.questions_asked = @ + 1]
      [] activity_type = "question_answered"
             -> [session EXCEPT !.questions_answered = @ + 1]
      [] activity_type = "cycle_completed"
             -> [session EXCEPT !.cycles_completed = @ + 1]
      [] activity_type = "error"
             -> [session EXCEPT !.errors = @ + 1]
      [] activity_type = "status_change"
             -> [session EXCEPT !.status = status]
      [] OTHER -> session

\* f with f[id] = value, id being added to the domain if it is new.
Store(f, id, value) ==
    [x \in DOMAIN f \cup {id} |-> IF x = id THEN value ELSE f[x]]

\* self.session_metrics is a defaultdict(list): the list of a session comes
\* to exist with its first metric.
MetricAppended(metrics, id) ==
    Store(metrics, id, IF id \in DOMAIN metrics THEN metrics[id] + 1 ELSE 1)

RegisterSession(id) ==
    /\ active_sessions' = Store(active_sessions, id, NewSession)
    /\ tracker_call' = Call("register_session", id, "returned")
    /\ UNCHANGED <<runVars, browser_state, sessVars, pipeVars, sizingVars,
                   schedVars, configVars, distVars, claimVars, moreVars,
                   session_metrics, is_tracking, tracking_task,
                   periodic_reports, stop_waiters>>

UpdateSessionActivity(id, activity_type, status) ==
    /\ StoredMetrics(session_metrics, DOMAIN session_metrics) < MaxEvents
    /\ IF Proceeds(id, active_sessions)
       THEN IF Lookup(id, active_sessions) = "returned"
            THEN /\ active_sessions' =
                       [active_sessions EXCEPT
                           ![id] = Counted(@, activity_type, status)]
                 /\ session_metrics' = MetricAppended(session_metrics, id)
                 /\ tracker_call' = Call("update_session_activity", id, "returned")
            ELSE /\ tracker_call' = Call("update_session_activity", id, "KeyError")
                 /\ UNCHANGED <<active_sessions, session_metrics>>
       ELSE /\ tracker_call' = Call("update_session_activity", id, "returned")
            /\ UNCHANGED <<active_sessions, session_metrics>>
    /\ UNCHANGED <<runVars, browser_state, sessVars, pipeVars, sizingVars,
                   schedVars, configVars, distVars, claimVars, moreVars,
                   is_tracking, tracking_task, periodic_reports,
                   stop_waiters>>

\* The entry is kept and marked inactive.
UnregisterSession(id) ==
    /\ active_sessions' =
          IF id \in DOMAIN active_sessions
          THEN [active_sessions EXCEPT ![id].status = "inactive"]
          ELSE active_sessions
    /\ tracker_call' = Call("unregister_session", id, "returned")
    /\ UNCHANGED <<runVars, browser_state, sessVars, pipeVars, sizingVars,
                   schedVars, configVars, distVars, claimVars, moreVars,
                   session_metrics, is_tracking, tracking_task,
                   periodic_reports, stop_waiters>>

\* generate_periodic_report appends one snapshot to periodic_reports.
Reported(reports, kind) == Append(reports, kind)

StartTracking ==
    /\ IF ~is_tracking
       THEN /\ is_tracking' = TRUE
            /\ tracking_task' = "sleeping"
       ELSE UNCHANGED <<is_tracking, tracking_task>>
    /\ tracker_call' = Call("start_tracking", 0, "returned")
    /\ UNCHANGED <<runVars, browser_state, sessVars, pipeVars, sizingVars,
                   schedVars, configVars, distVars, claimVars, moreVars,
                   active_sessions, session_metrics,
                   periodic_reports, stop_waiters>>

\* periodic_reporting_loop: "await asyncio.sleep(self.report_interval)"
\* returns, "if self.is_tracking" a report is generated, and the loop sleeps
\* again or ends.
ReportIntervalElapsed ==
    /\ tracking_task = "sleeping"
    /\ Len(periodic_reports) < MaxReports
    /\ periodic_reports' = IF is_tracking
                           THEN Reported(periodic_reports, "periodic")
                           ELSE periodic_reports
    /\ tracking_task' = IF is_tracking THEN "sleeping" ELSE "done"
    /\ tracker_call' = Call("report_interval_elapsed", 0, "returned")
    /\ UNCHANGED <<runVars, browser_state, sessVars, pipeVars, sizingVars,
                   schedVars, configVars, distVars, claimVars, moreVars,
                   active_sessions, session_metrics, is_tracking,
                   stop_waiters>>

StopActsAlways(tracking) == TRUE

\* "if self.is_tracking:" of stop_tracking
StopActs(tracking) == tracking

\* stop_tracking up to "await self.tracking_task": the flag is cleared and
\* the loop's task cancelled; the CancelledError reaches the loop in its sleep
\* (or before its first step) and ends it.
StopTrackingBegins ==
    /\ IF StopActs(is_tracking)
       THEN /\ is_tracking' = FALSE
            /\ tracking_task' = IF tracking_task = "none" THEN "none" ELSE "cancelled"
            /\ stop_waiters' = stop_waiters + 1
       ELSE UNCHANGED <<is_tracking, tracking_task, stop_waiters>>
    /\ stop_waiters < MaxTracked
    /\ tracker_call' = Call("stop_tracking", 0, "returned")
    /\ UNCHANGED <<runVars, browser_state, sessVars, pipeVars, sizingVars,
                   schedVars, configVars, distVars, claimVars, moreVars,
                   active_sessions, session_metrics,
                   periodic_reports>>

\* The cancelled task has ended: stop_tracking generates the final report.
StopTrackingEnds ==
    /\ stop_waiters > 0
    /\ Len(periodic_reports) < MaxReports
    /\ stop_waiters' = stop_waiters - 1
    /\ periodic_reports' = Reported(periodic_reports, "final")
    /\ tracker_call' = Call("stop_tracking_resumes", 0, "returned")
    /\ UNCHANGED <<runVars, browser_state, sessVars, pipeVars, sizingVars,
                   schedVars, configVars, distVars, claimVars, moreVars,
                   active_sessions, session_metrics, is_tracking,
                   tracking_task>>

TrackerInit ==
    /\ numUsers = 1
    /\ sessions_per_user = 1
    /\ RunIdle
    /\ max_contexts_memory = 0
    /\ max_contexts_cpu = 0
    /\ optimal_config = None
    /\ session_batch_size = None
    /\ session_configs = <<>>
    /\ tasks = <<>>
    /\ batch_num = 0
    /\ task_objects = <<>>
    /\ sched_pc = "none"
    /\ session_setup_delay = 0
    /\ session_batch_delay = 0
    /\ batch_processing = DefaultBatchProcessing
    /\ schedule_log = <<>>
    /\ TrackerIdle
    /\ ConfigIdle
    /\ DistIdle
    /\ ClaimIdle
    /\ MoreIdle

TrackerNext ==
    \/ \E id \in TrackIds : RegisterSession(id)
    \/ \E id \in TrackIds, activity_type \in ActivityTypes,
          status \in {"active", "inactive"} :
          UpdateSessionActivity(id, activity_type, status)
    \/ \E id \in TrackIds : UnregisterSession(id)

TrackerSpec == TrackerInit /\ [][TrackerNext]_vars

\* The reporting side of the tracker: it shares no field with the session
\* calls above, whose entries a report only reads.
ReportingNext ==
    \/ StartTracking
    \/ ReportIntervalElapsed
    \/ StopTrackingBegins
    \/ StopTrackingEnds

ReportingSpec == TrackerInit /\ [][ReportingNext]_vars

\* get_session_summary: the three counts of the summary.
GetSessionSummary(sessions) ==
    [total_active_sessions |->
        Cardinality({id \in DOMAIN sessions : sessions[id].status = "active"}),
     total_inactive_sessions |->
        Cardinality({id \in DOMAIN sessions : sessions[id].status = "inactive"}),
     total_sessions_tracked |-> Cardinality(DOMAIN sessions)]

\* C38 (as claimed): every summary has total_active_sessions +
\* total_inactive_sessions = total_sessions_tracked, and a session that
\* has just been unregistered is not made active again by an
\* update_session_activity call.
C38_TrackerPartition ==
    /\ [](LET summary == GetSessionSummary(active_sessions)
          IN  summary.total_active_sessions + summary.total_inactive_sessions
                  = summary.total_sessions_tracked)
    /\ [][LET id == tracker_call.id
          IN  /\ tracker_call.op = "unregister_session"
              /\ id \in DOMAIN active_sessions
              /\ tracker_call'.op = "update_session_activity"
              => active_sessions'[id].status # "active"]_vars

\* C24: update_session_activity and unregister_session for a session id that
\* is not registered return without raising and leave the tracked sessions,
\* their counters and the stored metrics as they were; and the tracked
\* sessions and their counters change only in a call of register_session or
\* in a call for a registered session.
C24_TrackerTolerance ==
    [][LET op == tracker_call'.op
           id == tracker_call'.id
           known == id \in DOMAIN active_sessions
       IN  /\ op \in {"update_session_activity", "unregister_session"} /\ ~known
                => /\ tracker_call'.outcome = "returned"
                   /\ UNCHANGED <<active_sessions, session_metrics,
                                  periodic_reports, is_tracking, tracking_task,
                                  stop_waiters>>
           /\ active_sessions' # active_sessions \/ session_metrics' # session_metrics
                => \/ op = "register_session"
                   \/ op \in {"update_session_activity", "unregister_session"}
                      /\ known
      ]_vars

\* An update for session 2 was dropped while session 1 has its counters.
C24_Witness ==
    /\ tracker_call.op = "update_session_activity"
    /\ tracker_call.id = 2
    /\ 2 \notin DOMAIN active_sessions
    /\ 1 \in DOMAIN active_sessions
    /\ active_sessions[1].questions_asked = 1
    /\ DOMAIN session_metrics = {1}

\* C25: while tracking is on, every elapsed report_interval gives one
\* summary; a stop_tracking that finds tracking on ends the loop and gives
\* exactly one final summary; while tracking is off and no stop is under way
\* no summary is emitted; and a stop_tracking that finds tracking off emits
\* nothing and waits for nothing.
C25_PeriodicReporting ==
    [][LET op == tracker_call'.op
           grew == Len(periodic_reports') - Len(periodic_reports)
           last == periodic_reports'[Len(periodic_reports')]
       IN  /\ grew \in {0, 1}
           /\ grew = 1 => SubSeq(periodic_reports', 1, Len(periodic_reports))
                             = periodic_reports
           /\ op = "report_interval_elapsed" /\ is_tracking
                => grew = 1 /\ last = "periodic"
           /\ grew = 1 /\ last = "periodic"
                => op = "report_interval_elapsed" /\ is_tracking
           /\ stop_waiters' < stop_waiters <=> grew = 1 /\ last = "final"
           /\ op = "stop_tracking"
                => /\ grew = 0
                   /\ ~is_tracking'
                   /\ tracking_task' # "sleeping"
                   /\ stop_waiters' = stop_waiters + (IF is_tracking THEN 1 ELSE 0)
           /\ ~is_tracking /\ stop_waiters = 0 => grew = 0
      ]_vars

\* One periodic summary, the final one, then a second stop_tracking.
C25_Witness ==
    /\ periodic_reports = <<"periodic", "final">>
    /\ tracker_call.op = "stop_tracking"
    /\ ~is_tracking
    /\ stop_waiters = 0
    /\ active_sessions = <<>>

\* ------------------------------------ STRESS_TEST_CONFIG and its writers
\* The keys of STRESS_TEST_CONFIG that the sizing reads and writes;
\* max_concurrent_contexts may be None ("None for unlimited").
Configs ==
    [sessions_per_user : 1..MaxSessions,
     max_concurrent_contexts : {None} \cup {Some(n) : n \in 1..MaxContexts},
     dynamic_resource_calculation : BOOLEAN]

\* A field of the request body: None when the field is not given.
Optional(values) == {None} \cup {Some(v) : v \in values}

\* "if config.<field> is not None: STRESS_TEST_CONFIG[...] = config.<field>"
Applied(current, field) == IF field # None THEN field[1] ELSE current

\* start_stress_test (POST /stress-test/start): the fields of the request
\* are written into STRESS_TEST_CONFIG; an explicit sessions_per_user also
\* switches the dynamic calculation off.
ApiStartRequest(req_sessions_per_user, req_batch_enabled, req_wait_for_completion) ==
    /\ config_pc = "configured"
    /\ config_pc' = "requested"
    /\ stress_test_config' =
          [stress_test_config EXCEPT
              !.sessions_per_user = Applied(@, req_sessions_per_user),
              !.dynamic_resource_calculation =
                  IF req_sessions_per_user # None THEN FALSE ELSE @]
    /\ batch_processing' =
          [enabled |-> Applied(batch_processing.enabled, req_batch_enabled),
           wait_for_completion |->
               Applied(batch_processing.wait_for_completion,
                       req_wait_for_completion)]
    /\ UNCHANGED <<runVars, browser_state, sessVars, pipeVars, trackVars, distVars, claimVars, moreVars,
                   sizingVars, session_batch_size, session_configs, tasks,
                   batch_num, task_objects, sched_pc, session_setup_delay,
                   session_batch_delay, schedule_log>>

\* optimize_config: "if override_max_contexts is not None:
\* optimal['max_concurrent_contexts'] = override_max_contexts"
Override(calculated, override) ==
    IF override # None THEN override[1] ELSE calculated

\* The head of stress_test: with dynamic_resource_calculation the dict gets
\* the calculated sessions_per_user and the calculated or overriding
\* max_concurrent_contexts (update_stress_test_config); then the run reads
\* its sessions_per_user and max_contexts from the dict. A
\* max_concurrent_contexts of None that the calculation did not replace
\* fails the run at "max(max_contexts, total_concurrent_sessions)".
StressTestSizing ==
    /\ config_pc \in {"configured", "requested"}
    /\ LET contexts == ConcurrentContexts(max_contexts_memory, max_contexts_cpu)
           optimal == [sessions_per_user |-> SessionsPerUser(contexts, numUsers),
                       max_concurrent_contexts |->
                           Override(contexts,
                                    stress_test_config.max_concurrent_contexts)]
           updated == IF stress_test_config.dynamic_resource_calculation
                      THEN [stress_test_config EXCEPT
                               !.sessions_per_user = optimal.sessions_per_user,
                               !.max_concurrent_contexts =
                                   Some(optimal.max_concurrent_contexts)]
                      ELSE stress_test_config
       IN  /\ stress_test_config' = updated
           /\ sessions_per_user' = updated.sessions_per_user
           /\ IF updated.max_concurrent_contexts # None
              THEN /\ max_contexts' = updated.max_concurrent_contexts[1]
                   /\ config_pc' = "sized"
              ELSE /\ max_contexts' = max_contexts
                   /\ config_pc' = "failed"
           /\ optimal_config' =
                 IF stress_test_config.dynamic_resource_calculation
                 THEN <<optimal.sessions_per_user, contexts>>
                 ELSE optimal_config
    /\ UNCHANGED <<numUsers, run_pc, semaphore, semaphore_limit, sem_value,
                   successful_sessions, failed_sessions, browser_state,
                   sessVars, pipeVars, trackVars, distVars, claimVars, moreVars, max_contexts_memory,
                   max_contexts_cpu, schedVars>>

\* A configuration as config.py may hold it, on a machine with any two
\* ceilings; without the dynamic calculation max_concurrent_contexts is set.
ConfigInit ==
    /\ numUsers \in 1..MaxSessions
    /\ sessions_per_user = 1
    /\ RunIdle
    /\ TrackerIdle
    /\ max_contexts_memory \in 0..(MaxContexts + 1)
    /\ max_contexts_cpu \in 0..(MaxContexts + 1)
    /\ optimal_config = None
    /\ session_batch_size = None
    /\ session_configs = <<>>
    /\ tasks = <<>>
    /\ batch_num = 0
    /\ task_objects = <<>>
    /\ sched_pc = "none"
    /\ session_setup_delay = 0
    /\ session_batch_delay = 0
    /\ batch_processing = DefaultBatchProcessing
    /\ schedule_log = <<>>
    /\ stress_test_config \in Configs
    /\ stress_test_config.dynamic_resource_calculation
          \/ stress_test_config.max_concurrent_contexts # None
    /\ config_pc = "configured"
    /\ DistIdle
    /\ ClaimIdle
    /\ MoreIdle

ConfigNext ==
    \/ \E req_sessions_per_user \in Optional(1..MaxSessions),
          req_batch_enabled \in Optional(BOOLEAN),
          req_wait_for_completion \in Optional(BOOLEAN) :
          ApiStartRequest(req_sessions_per_user, req_batch_enabled,
                          req_wait_for_completion)
    \/ StressTestSizing

ConfigSpec == ConfigInit /\ [][ConfigNext]_vars

\* C26 (as claimed): with dynamic_resource_calculation, the
\* max_concurrent_contexts the run uses is the smallest of the memory
\* ceiling, the CPU ceiling (the two taken as at least 1, as the calculator
\* does) and the limit configured as max_concurrent_contexts.
C26_DynamicCeiling ==
    [][config_pc' = "sized" /\ stress_test_config.dynamic_resource_calculation
          => LET lower == IF max_contexts_memory < max_contexts_cpu
                          THEN max_contexts_memory ELSE max_contexts_cpu
                 ceiling == IF lower < 1 THEN 1 ELSE lower
                 limit == stress_test_config.max_concurrent_contexts
             IN  max_contexts' = IF limit # None /\ limit[1] < ceiling
                                 THEN limit[1] ELSE ceiling
      ]_vars

\* C27 (as claimed): the run configuration is never mutated: neither the
\* dynamic sizing of stress_test nor the start request of the API changes
\* the existing STRESS_TEST_CONFIG.
C27_ConfigNeverMutated ==
    [][/\ stress_test_config' = stress_test_config
       /\ batch_processing' = batch_processing]_vars

\* ------------------------------------------- the distribution of questions
\* The questions a user may be configured with: those of the three lists and
\* one that is in none of them.
QuestionUniverse ==
    Range(course_1_questions) \cup Range(course_2_questions)
        \cup Range(general_questions) \cup {"other_a"}

\* distribute_questions_by_course(questions, course_1_questions,
\* course_2_questions, general_questions) is called and returns.
DistributeQuestions ==
    /\ question_distribution = None
    /\ question_distribution' = Some(DistributeQuestionsByCourse(questions))
    /\ UNCHANGED <<runVars, browser_state, sessVars, pipeVars, sizingVars,
                   schedVars, trackVars, configVars, questions, claimVars,
                   moreVars>>

\* Any list of at most MaxQuestions questions, repetitions included.
DistributionInit ==
    /\ numUsers = 1
    /\ sessions_per_user = 1
    /\ RunIdle
    /\ TrackerIdle
    /\ ConfigIdle
    /\ max_contexts_memory = 0
    /\ max_contexts_cpu = 0
    /\ optimal_config = None
    /\ session_batch_size = None
    /\ session_configs = <<>>
    /\ tasks = <<>>
    /\ batch_num = 0
    /\ task_objects = <<>>
    /\ sched_pc = "none"
    /\ session_setup_delay = 0
    /\ session_batch_delay = 0
    /\ batch_processing = DefaultBatchProcessing
    /\ schedule_log = <<>>
    /\ ClaimIdle
    /\ MoreIdle
    /\ \E n \in 0..MaxQuestions : questions \in [1..n -> QuestionUniverse]
    /\ question_distribution = None

DistributionNext == DistributeQuestions

DistributionSpec == DistributionInit /\ [][DistributionNext]_vars

\* C28: the course-1 list is the user's questions without the course-2
\* questions, in their order, and the course-2 list is the user's questions
\* without the course-1 questions, in their order: a course-1 question is
\* only in the course-1 list, a course-2 question only in the course-2 list,
\* a general or unknown question in both, and every question is in a list.
C28_QuestionDistribution ==
    question_distribution # None =>
        LET d == question_distribution[1]
            not_course_1(q) == q \notin Range(course_1_questions)
            not_course_2(q) == q \notin Range(course_2_questions)
        IN  /\ d.course_1 = SelectSeq(questions, not_course_2)
            /\ d.course_2 = SelectSeq(questions, not_course_1)
            /\ \A i \in DOMAIN questions :
                  questions[i] \in Range(d.course_1) \cup Range(d.course_2)

\* A list with a course-1 question, a course-2 question and a question of
\* neither list has been distributed.
C28_Witness ==
    /\ question_distribution # None
    /\ \E i, j, k \in DOMAIN questions :
          /\ questions[i] \in Range(course_1_questions)
          /\ questions[j] \in Range(course_2_questions)
          /\ questions[k] \notin
                Range(course_1_questions) \cup Range(course_2_questions)
    /\ Len(question_distribution[1].course_1) = 2
    /\ Len(question_distribution[1].course_2) = 2

CoursePage(k) == IF k = 1 THEN "course_1" ELSE "course_2"

\* C30 (as claimed): a chatbot task is made only for a target whose page
\* was opened.
C30_OnlyOpenedTargets ==
    \A s \in Sessions : \A k \in chatbot_tasks[s] : pages[s][CoursePage(k)] # "none"

\* ----------------------- process_question_pipeline, statement by statement
\* The workers of the pipeline with the block under counter_lock taken one
\* statement at a time, so that what keeps two workers apart is the lock
\* and nothing else.

LockFreeAlways(lock) == TRUE

\* "async with counter_lock": the worker goes on when no worker holds it.
LockFree(lock) == lock = None

\* The worker's locals, with every other variable of the pipeline.
ClaimStep(w, from, to) ==
    /\ pipeline_pc = "gathering"
    /\ worker_pc[w] \in from
    /\ worker_pc' = [worker_pc EXCEPT ![w] = to]
    /\ UNCHANGED <<runVars, browser_state, sessVars, continuous_iterations,
                   unit_failed, pipeline_pc, sizingVars, schedVars,
                   trackVars, configVars, distVars, moreVars>>

\* "while should_continue['value']:" (the counter stops at CountCap when no
\* budget ends the run)
WhileTest(w) ==
    /\ question_counter < CountCap
    /\ ClaimStep(w, {"created", "looping"},
                 IF should_continue THEN "acquiring" ELSE "exited")
    /\ UNCHANGED <<question_pool, question_counter, total_questions_processed,
                   should_continue, question_metrics, claimVars>>

\* "async with counter_lock:" is entered.
AcquireLock(w) ==
    /\ LockFree(counter_lock)
    /\ ClaimStep(w, {"acquiring"}, "locked")
    /\ counter_lock' = Some(w)
    /\ UNCHANGED <<question_pool, question_counter, total_questions_processed,
                   should_continue, question_metrics, question_idx, question,
                   question_num, claim_log,
                   block_log>>

\* "if continuous_iterations and total_questions_processed >= ...:
\* should_continue = False; break", which leaves the "async with".
BudgetTest(w) ==
    /\ ClaimStep(w, {"locked"}, IF BudgetExhausted THEN "exited" ELSE "checked")
    /\ should_continue' = IF BudgetExhausted THEN FALSE ELSE should_continue
    /\ counter_lock' = IF BudgetExhausted THEN None ELSE counter_lock
    /\ UNCHANGED <<question_pool, question_counter, total_questions_processed,
                   question_metrics, question_idx, question, question_num,
                   claim_log,
                   block_log>>

\* "question_idx = question_counter['value'] % len(question_pool)"
ComputeIndex(w) ==
    /\ ClaimStep(w, {"checked"}, "indexed")
    /\ question_idx' = [question_idx EXCEPT ![w] =
                           question_counter % Len(question_pool)]
    /\ UNCHANGED <<question_pool, question_counter, total_questions_processed,
                   should_continue, question_metrics, counter_lock, question,
                   question_num, claim_log,
                   block_log>>

\* "question = question_pool[question_idx]"
ReadQuestion(w) ==
    /\ ClaimStep(w, {"indexed"}, "read")
    /\ question' = [question EXCEPT ![w] = question_pool[question_idx[w] + 1]]
    /\ UNCHANGED <<question_pool, question_counter, total_questions_processed,
                   should_continue, question_metrics, counter_lock,
                   question_idx, question_num, claim_log,
                   block_log>>

\* "question_counter['value'] += 1"
IncrementCounter(w) ==
    /\ ClaimStep(w, {"read"}, "incremented")
    /\ question_counter' = question_counter + 1
    /\ UNCHANGED <<question_pool, total_questions_processed, should_continue,
                   question_metrics, claimVars>>

\* "question_num = question_counter['value']" and
\* "total_questions_processed['value'] += 1": the claim is made.
TakeNumber(w) ==
    /\ ClaimStep(w, {"incremented"}, "numbered")
    /\ question_num' = [question_num EXCEPT ![w] = question_counter]
    /\ claim_log' = Append(claim_log, question_counter)
    /\ block_log' = IF Len(block_log) = Len(question_pool)
                    THEN <<question[w]>>
                    ELSE Append(block_log, question[w])
    /\ total_questions_processed' = total_questions_processed + 1
    /\ UNCHANGED <<question_pool, question_counter, should_continue,
                   question_metrics, counter_lock, question_idx, question>>

FullCycleAlways(counter, pool) == TRUE

\* "question_counter['value'] % len(question_pool) == 0"
FullCycle(counter, pool) == counter % Len(pool) = 0

\* "if question_counter['value'] % len(question_pool) == 0:
\* random.shuffle(question_pool)", and the "async with" is left.
ShuffleAndRelease(w) ==
    /\ ClaimStep(w, {"numbered"}, "asking")
    /\ IF FullCycle(question_counter, question_pool)
       THEN question_pool' \in Shuffles(question_pool)
       ELSE question_pool' = question_pool
    /\ counter_lock' = None
    /\ UNCHANGED <<question_counter, total_questions_processed,
                   should_continue, question_metrics, question_idx, question,
                   question_num, claim_log,
                   block_log>>

\* ask_single_question returns or raises; a metric is appended and the
\* worker is back at its "while".
AskReturns(w) ==
    /\ ClaimStep(w, {"asking"}, "looping")
    /\ question_metrics' = question_metrics + MetricsAppended(TRUE)
    /\ question_idx' = [question_idx EXCEPT ![w] = 0]
    /\ question' = [question EXCEPT ![w] = 0]
    /\ question_num' = [question_num EXCEPT ![w] = 0]
    /\ UNCHANGED <<question_pool, question_counter, total_questions_processed,
                   should_continue, counter_lock, claim_log,
                   block_log>>

\* The pipeline of one target at its start, no worker having run, with a
\* pool of at most MaxClaimPool questions.
ClaimInit ==
    /\ PipelineStart
    /\ Len(question_pool) <= MaxClaimPool
    /\ RestIdle
    /\ counter_lock = None
    /\ question_idx = [w \in Workers |-> 0]
    /\ question = [w \in Workers |-> 0]
    /\ question_num = [w \in Workers |-> 0]
    /\ claim_log = <<>>
    /\ block_log = <<>>

ClaimNext ==
    \/ \E w \in Workers : WhileTest(w)
    \/ \E w \in Workers : AcquireLock(w)
    \/ \E w \in Workers : BudgetTest(w)
    \/ \E w \in Workers : ComputeIndex(w)
    \/ \E w \in Workers : ReadQuestion(w)
    \/ \E w \in Workers : IncrementCounter(w)
    \/ \E w \in Workers : TakeNumber(w)
    \/ \E w \in Workers : ShuffleAndRelease(w)
    \/ \E w \in Workers : AskReturns(w)
    \/ PipelineReturns

ClaimSpec == ClaimInit /\ [][ClaimNext]_vars

\* C29: the claim step is atomic with respect to the other workers: no
\* claim number is handed out twice, whenever no worker is inside the
\* critical section the processed count is the number of claims made, and
\* the pool is not shuffled while another worker has computed its index and
\* not yet read the pool.
C29_ClaimStepAtomic ==
    /\ [](\A i, j \in DOMAIN claim_log : i # j => claim_log[i] # claim_log[j])
    /\ [](counter_lock = None => total_questions_processed = Len(claim_log))
    /\ [][\A w \in Workers :
             worker_pc[w] = "numbered" /\ worker_pc'[w] = "asking"
                 /\ question_counter % Len(question_pool) = 0
             => \A v \in Workers \ {w} : worker_pc[v] # "indexed"]_vars

\* C36: in every block of P consecutive claims that starts at a multiple
\* of P (P the pool's length) each question of the pool is claimed exactly
\* once, whatever the shuffles and the interleaving of the workers.
C36_CycleCoverage ==
    LET P == Len(question_pool)
    IN  /\ Len(block_log) <= P
        /\ \A i, j \in DOMAIN block_log : i # j => block_log[i] # block_log[j]
        /\ Range(block_log) \subseteq Range(question_pool)
        /\ Len(block_log) = P => Range(block_log) = Range(question_pool)
        /\ claim_log # <<>> => Len(block_log) = ((Len(claim_log) - 1) % P) + 1

\* The second block of a pool of two questions is complete, claimed by two
\* workers, the pool having been shuffled into the other order in between.
C36_Witness ==
    /\ Len(question_pool) = 2
    /\ Len(claim_log) = 4
    /\ Len(block_log) = 2
    /\ block_log = <<2, 1>>
    /\ \A w \in Workers : worker_pc[w] \notin {"created"}

\* The pool has been shuffled after a full cycle of claims, and a worker
\* waits for the lock that another worker holds.
C29_Witness ==
    /\ Len(question_pool) >= 2
    /\ Len(claim_log) >= Len(question_pool)
    /\ \E w, v \in Workers :
          /\ w # v
          /\ worker_pc[w] = "acquiring"
          /\ counter_lock = Some(v)

\* --------------------------------- interact_with_chatbot: the cycle loop
\* Everything that is not of the cycle loop.
CycleFrame ==
    UNCHANGED <<runVars, browser_state, sessVars, continuous_iterations,
                question_pool, question_counter, total_questions_processed,
                should_continue, worker_pc, unit_failed, pipeline_pc,
                sizingVars, schedVars, trackVars, configVars, distVars,
                claimVars, unitVars, setupVars, helperVars, apiVars>>

\* "if concurrent_questions and continuous_mode:"
UsesPipeline(concurrent, continuous) == concurrent /\ continuous

\* The pipeline branch is taken or the "while True" of the standard mode is
\* entered.
ModeChosen ==
    /\ cycle_pc = "start"
    /\ cycle_pc' = IF UsesPipeline(concurrent_questions, continuous_mode)
                   THEN "pipeline" ELSE "cycle_start"
    /\ UNCHANGED <<continuous_mode, concurrent_questions, questions_to_use,
                   cycle_count, cycle_question, question_metrics>>
    /\ CycleFrame

\* "await asyncio.gather(*pipeline_tasks, ...)" returns and "return".
PipelineHandled ==
    /\ cycle_pc = "pipeline"
    /\ cycle_pc' = "returned"
    /\ UNCHANGED <<continuous_mode, concurrent_questions, questions_to_use,
                   cycle_count, cycle_question, question_metrics>>
    /\ CycleFrame

ReachedIterationsStrict(count, iterations) ==
    Truthy(iterations) /\ count > iterations[1]

\* "continuous_iterations and cycle_count >= continuous_iterations"
ReachedIterations(count, iterations) ==
    Truthy(iterations) /\ count >= iterations[1]

\* The code after the questions of a cycle: break, or shuffle and go round.
CycleCompleted ==
    IF continuous_mode /\ ~ReachedIterations(cycle_count', continuous_iterations)
    THEN /\ cycle_pc' = "cycle_start"
         /\ questions_to_use' \in Shuffles(questions_to_use)
    ELSE /\ cycle_pc' = "completed"
         /\ UNCHANGED questions_to_use

\* "except Exception as cycle_error": break or continue in continuous mode,
\* "raise" otherwise (the outer "except Exception" logs it and the function
\* returns).
CycleRaised ==
    /\ cycle_pc' = IF continuous_mode
                   THEN IF ReachedIterations(cycle_count', continuous_iterations)
                        THEN "completed" ELSE "cycle_start"
                   ELSE "raised"
    /\ UNCHANGED questions_to_use

\* "cycle_count += 1", then with concurrent_questions the gather of all
\* questions (return_exceptions=True: one metric per question, nothing
\* raised) and the code after the cycle; otherwise the first question is
\* about to be asked.
CycleBegins ==
    /\ cycle_pc = "cycle_start"
    /\ cycle_count < MaxCycles
    /\ cycle_count' = cycle_count + 1
    /\ IF concurrent_questions
       THEN /\ question_metrics' = question_metrics + Len(questions_to_use)
            /\ CycleCompleted
       ELSE /\ cycle_pc' = "asking"
            /\ UNCHANGED <<question_metrics, questions_to_use>>
    /\ cycle_question' = 0
    /\ UNCHANGED <<continuous_mode, concurrent_questions>>
    /\ CycleFrame

\* Sequential mode: "metric = await ask_single_question(...)" returns, the
\* metric is appended, and after the last question the code after the cycle
\* runs; or something in the try block raises (ask_single_question turns
\* its own exceptions into a failure metric).
AskNext(raised) ==
    /\ cycle_pc = "asking"
    /\ UNCHANGED <<continuous_mode, concurrent_questions, cycle_count>>
    /\ IF raised
       THEN /\ CycleRaised
            /\ cycle_question' = 0
            /\ UNCHANGED question_metrics
       ELSE /\ question_metrics' = question_metrics + 1
            /\ IF cycle_question + 1 = Len(questions_to_use)
               THEN /\ CycleCompleted
                    /\ cycle_question' = 0
               ELSE /\ cycle_question' = cycle_question + 1
                    /\ UNCHANGED <<cycle_pc, questions_to_use>>
    /\ CycleFrame

\* interact_with_chatbot has its page set up and its questions; any pair of
\* mode flags, any continuous_iterations.
CycleInit ==
    /\ numUsers = 1
    /\ sessions_per_user = 1
    /\ NoRun
    /\ TrackerIdle
    /\ ConfigIdle
    /\ DistIdle
    /\ ClaimIdle
    /\ max_contexts_memory = 0
    /\ max_contexts_cpu = 0
    /\ optimal_config = None
    /\ session_batch_size = None
    /\ session_configs = <<>>
    /\ tasks = <<>>
    /\ batch_num = 0
    /\ task_objects = <<>>
    /\ sched_pc = "none"
    /\ session_setup_delay = 0
    /\ session_batch_delay = 0
    /\ batch_processing = DefaultBatchProcessing
    /\ schedule_log = <<>>
    /\ continuous_iterations \in {None} \cup {Some(n) : n \in 0..MaxIter}
    /\ question_pool = <<>>
    /\ question_counter = 0
    /\ total_questions_processed = 0
    /\ should_continue = TRUE
    /\ worker_pc = <<>>
    /\ question_metrics = 0
    /\ unit_failed = FALSE
    /\ pipeline_pc = "none"
    /\ continuous_mode \in BOOLEAN
    /\ concurrent_questions \in BOOLEAN
    /\ \E P \in 1..MaxPool : questions_to_use = [i \in 1..P |-> i]
    /\ cycle_count = 0
    /\ cycle_question = 0
    /\ cycle_pc = "start"
    /\ UnitIdle
    /\ SetupIdle
    /\ HelperIdle
    /\ ApiIdle

CycleNext ==
    \/ ModeChosen
    \/ PipelineHandled
    \/ CycleBegins
    \/ \E raised \in BOOLEAN : AskNext(raised)

CycleSpec == CycleInit /\ [][CycleNext]_vars

\* C31: the pipeline is used exactly when both flags are set; otherwise the
\* function runs cycles: one when continuous_mode is false, N when it is
\* true with continuous_iterations = N >= 1, a cycle that raised included,
\* and no cycle after that.
C31_CycleMode ==
    LET stopped == cycle_pc \in {"completed", "raised"}
        bounded == continuous_mode /\ continuous_iterations # None
                      /\ continuous_iterations[1] >= 1
    IN  /\ cycle_pc \in {"pipeline", "returned"}
              => concurrent_questions /\ continuous_mode
        /\ cycle_pc \in {"cycle_start", "asking", "completed", "raised"}
              => ~(concurrent_questions /\ continuous_mode)
        /\ ~continuous_mode
              => cycle_count <= 1 /\ (stopped => cycle_count = 1)
        /\ bounded
              => /\ cycle_count <= continuous_iterations[1]
                 /\ cycle_pc # "raised"
                 /\ stopped => cycle_count = continuous_iterations[1]

\* Two cycles of at least two questions were asked for and run, every
\* question giving its metric.
C31_Witness ==
    /\ cycle_pc = "completed"
    /\ continuous_mode
    /\ continuous_iterations = Some(2)
    /\ cycle_count = 2
    /\ Len(questions_to_use) >= 2
    /\ question_metrics = 2 * Len(questions_to_use)

\* ------------------------------------------------- ask_single_question
\* "for attempt in range(10)"
FindAttempts == 10
\* question_click_max_retries = 3
question_click_max_retries == 3
\* QUESTION_CONFIG
min_response_wait == 5
max_response_wait == 30
response_check_interval == 2

UnitFrame ==
    UNCHANGED <<runVars, browser_state, sessVars, pipeVars, sizingVars,
                schedVars, trackVars, configVars, distVars, claimVars,
                cycleVars, setupVars, helperVars, apiVars>>

\* The metric of a unit: response_received and whether it has an 'error'.
Metric(received, failed) == [response_received |-> received, error |-> failed]

\* The failure metric of the early returns and of "except Exception as
\* question_error".
FailureMetric == Metric(FALSE, TRUE)

\* The iframe is acquired, or after the reload it is not and the failure
\* metric is returned.
IframeAcquired(ok) ==
    /\ unit_pc = "start"
    /\ unit_pc' = IF ok THEN "finding" ELSE "returned"
    /\ question_metric' = IF ok THEN question_metric ELSE Some(FailureMetric)
    /\ UNCHANGED <<attempt, question_box, question_click_attempt,
                   question_box_click_success, submitted, waited_time,
                   ready_observed, response_received>>
    /\ UnitFrame

\* One pass of "for attempt in range(10)": the box is found visible and
\* enabled ("break"), or the pass fails, after question_box was assigned
\* (located) or before; the last failing pass sets question_box = None and
\* the failure metric is returned.
FindAttempt(found, located) ==
    /\ unit_pc = "finding"
    /\ found => located
    /\ IF found
       THEN /\ question_box' = Some("box")
            /\ unit_pc' = "clearing"
            /\ question_click_attempt' = 1
            /\ UNCHANGED <<attempt, question_metric>>
       ELSE IF attempt < FindAttempts - 1
       THEN /\ attempt' = attempt + 1
            /\ question_box' = IF located THEN Some("box") ELSE question_box
            /\ UNCHANGED <<unit_pc, question_click_attempt, question_metric>>
       ELSE /\ question_box' = None
            /\ unit_pc' = "returned"
            /\ question_metric' = Some(FailureMetric)
            /\ UNCHANGED <<attempt, question_click_attempt>>
    /\ UNCHANGED <<question_box_click_success, submitted, waited_time,
                   ready_observed, response_received>>
    /\ UnitFrame

\* One pass of the click loop: click and fill('') work ("break"); or the
\* box is not ready or a call raises: "continue" while
\* question_click_attempt < question_click_max_retries, and on the last
\* pass "Continue anyway - might still work".
ClickAttempt(ok) ==
    /\ unit_pc = "clearing"
    /\ IF ok
       THEN /\ question_box_click_success' = TRUE
            /\ unit_pc' = "submitting"
            /\ UNCHANGED question_click_attempt
       ELSE IF question_click_attempt < question_click_max_retries
       THEN /\ question_click_attempt' = question_click_attempt + 1
            /\ UNCHANGED <<unit_pc, question_box_click_success>>
       ELSE /\ unit_pc' = "submitting"
            /\ UNCHANGED <<question_click_attempt, question_box_click_success>>
    /\ UNCHANGED <<attempt, question_box, submitted, waited_time,
                   ready_observed, response_received, question_metric>>
    /\ UnitFrame

\* "await question_box.fill(question)", "await question_box.press('Enter')":
\* the question is submitted, or a call raises and "except Exception as
\* question_error" returns the failure metric.
Submit(ok) ==
    /\ unit_pc = "submitting"
    /\ submitted' = ok
    /\ unit_pc' = IF ok THEN "min_wait" ELSE "returned"
    /\ question_metric' = IF ok THEN question_metric ELSE Some(FailureMetric)
    /\ UNCHANGED <<attempt, question_box, question_click_attempt,
                   question_box_click_success, waited_time, ready_observed,
                   response_received>>
    /\ UnitFrame

\* "await asyncio.sleep(min_wait)", "waited_time = min_wait"
MinWaitElapsed ==
    /\ unit_pc = "min_wait"
    /\ waited_time' = min_response_wait
    /\ unit_pc' = "polling"
    /\ UNCHANGED <<attempt, question_box, question_click_attempt,
                   question_box_click_success, submitted, ready_observed,
                   response_received, question_metric>>
    /\ UnitFrame

\* One pass of "while waited_time < max_wait": the box is visible and
\* enabled and the click works (ready): response_received = True, "break";
\* otherwise sleep check_interval and go round or leave the loop.
Poll(ready) ==
    /\ unit_pc = "polling"
    /\ waited_time < max_response_wait
    /\ IF ready
       THEN /\ response_received' = TRUE
            /\ ready_observed' = TRUE
            /\ unit_pc' = "reporting"
            /\ UNCHANGED waited_time
       ELSE /\ waited_time' = waited_time + response_check_interval
            /\ unit_pc' = IF waited_time' < max_response_wait
                          THEN "polling" ELSE "reporting"
            /\ UNCHANGED <<response_received, ready_observed>>
    /\ UNCHANGED <<attempt, question_box, question_click_attempt,
                   question_box_click_success, submitted, question_metric>>
    /\ UnitFrame

\* "if not response_received and waited_time >= max_wait:
\* response_received = True"
AssumedReceived(received, waited) ==
    received \/ waited >= max_response_wait

\* The code after the loop: the metric is built and returned.
Report ==
    /\ unit_pc = "reporting"
    /\ response_received' = AssumedReceived(response_received, waited_time)
    /\ question_metric' = Some(Metric(response_received', FALSE))
    /\ unit_pc' = "returned"
    /\ UNCHANGED <<attempt, question_box, question_click_attempt,
                   question_box_click_success, submitted, waited_time,
                   ready_observed>>
    /\ UnitFrame

\* ask_single_question is called on a page.
UnitInit ==
    /\ numUsers = 1
    /\ sessions_per_user = 1
    /\ RunIdle
    /\ TrackerIdle
    /\ ConfigIdle
    /\ DistIdle
    /\ ClaimIdle
    /\ CycleIdle
    /\ SetupIdle
    /\ HelperIdle
    /\ ApiIdle
    /\ max_contexts_memory = 0
    /\ max_contexts_cpu = 0
    /\ optimal_config = None
    /\ session_batch_size = None
    /\ session_configs = <<>>
    /\ tasks = <<>>
    /\ batch_num = 0
    /\ task_objects = <<>>
    /\ sched_pc = "none"
    /\ session_setup_delay = 0
    /\ session_batch_delay = 0
    /\ batch_processing = DefaultBatchProcessing
    /\ schedule_log = <<>>
    /\ unit_pc = "start"
    /\ attempt = 0
    /\ question_box = None
    /\ question_click_attempt = 0
    /\ question_box_click_success = FALSE
    /\ submitted = FALSE
    /\ waited_time = 0
    /\ ready_observed = FALSE
    /\ response_received = FALSE
    /\ question_metric = None

UnitNext ==
    \/ \E ok \in BOOLEAN : IframeAcquired(ok)
    \/ \E found, located \in BOOLEAN : FindAttempt(found, located)
    \/ \E ok \in BOOLEAN : ClickAttempt(ok)
    \/ \E ok \in BOOLEAN : Submit(ok)
    \/ MinWaitElapsed
    \/ \E ready \in BOOLEAN : Poll(ready)
    \/ Report

UnitSpec == UnitInit /\ [][UnitNext]_vars

\* C32 (as claimed): a unit whose find loop failed on all 10 passes, or
\* whose click loop failed on all 3 passes, does not submit its question
\* and returns a failure metric.
C32_RetryExhaustion ==
    LET find_exhausted == /\ unit_pc # "finding"
                          /\ attempt = FindAttempts - 1
                          /\ question_box = None
        click_exhausted == /\ unit_pc \notin {"none", "start", "finding", "clearing"}
                           /\ question_click_attempt = question_click_max_retries
                           /\ ~question_box_click_success
    IN  find_exhausted \/ click_exhausted
            => /\ ~submitted
               /\ unit_pc = "returned" => question_metric = Some(FailureMetric)

\* C37 (as claimed): a unit is reported with response_received = True only
\* if a poll saw the ready signal; no poll is made before
\* min_response_wait, and the polls are bounded.
C37_TruthfulResponse ==
    /\ unit_pc = "polling" => waited_time >= min_response_wait
    /\ waited_time <= max_response_wait + response_check_interval
    /\ unit_pc = "returned" /\ question_metric[1].response_received
          => ready_observed

C35_NormalModeUngated ==
    \A s \in Sessions :
        ~semaphore /\ session_id[s] = NormalSessionId(s[1])
            => /\ permits_held[s] = 0
               /\ sem_value = semaphore_limit
               /\ error[s] # "AttributeError"

\* ------------------------------------- interact_with_chatbot: the set-up
\* chatbot_max_retries = 3
chatbot_max_retries == 3
\* authorize_max_retries = 3
authorize_max_retries == 3

SetupFrame ==
    UNCHANGED <<runVars, browser_state, sessVars, pipeVars, sizingVars,
                schedVars, trackVars, configVars, distVars, claimVars,
                unitVars, continuous_mode, concurrent_questions,
                questions_to_use, cycle_count, cycle_question, helperVars,
                apiVars>>

\* One pass of "for chatbot_attempt in range(1, chatbot_max_retries + 1)":
\* the button is clicked and the iframe is attached ("break"), or the pass
\* fails: "continue" while chatbot_attempt < chatbot_max_retries, else
\* "raise Exception(...)" into the function's "except Exception", which
\* logs it.
ChatbotClick(ok) ==
    /\ cycle_pc = "chatbot_click"
    /\ IF ok
       THEN /\ cycle_pc' = "content_frame"
            /\ UNCHANGED chatbot_attempt
       ELSE IF chatbot_attempt < chatbot_max_retries
       THEN /\ chatbot_attempt' = chatbot_attempt + 1
            /\ UNCHANGED cycle_pc
       ELSE /\ cycle_pc' = "setup_failed"
            /\ UNCHANGED chatbot_attempt
    /\ UNCHANGED auth_attempt
    /\ SetupFrame

\* "iframe = await get_iframe_content_frame(page, tab_name)" returns the
\* frame or raises.
ContentFrame(ok) ==
    /\ cycle_pc = "content_frame"
    /\ cycle_pc' = IF ok THEN "authorize" ELSE "setup_failed"
    /\ auth_attempt' = IF ok THEN 1 ELSE auth_attempt
    /\ UNCHANGED chatbot_attempt
    /\ SetupFrame

\* One pass of "for auth_attempt in range(1, authorize_max_retries + 1)":
\* the Authorize button is clicked and gone ("break"), or the pass fails;
\* after the last failing pass the function raises into its own "except
\* Exception".
AuthorizeClick(ok) ==
    /\ cycle_pc = "authorize"
    /\ IF ok
       THEN /\ cycle_pc' = "start"
            /\ UNCHANGED auth_attempt
       ELSE IF auth_attempt < authorize_max_retries
       THEN /\ auth_attempt' = auth_attempt + 1
            /\ UNCHANGED cycle_pc
       ELSE /\ cycle_pc' = "setup_failed"
            /\ UNCHANGED auth_attempt
    /\ UNCHANGED chatbot_attempt
    /\ SetupFrame

\* interact_with_chatbot has returned: after its cycles, after its
\* pipeline, or from its "except Exception", which only logs.
InteractReturned ==
    cycle_pc \in {"completed", "returned", "raised", "setup_failed"}

\* "await run_concurrent_with_timeout(chatbot_tasks, ...)" returns and
\* run_user_session goes on to its end.
ChatbotTasksReturn ==
    /\ InteractReturned
    /\ InteractionEnds(TheSession)

\* A session that has logged in and opened course 1 calls
\* interact_with_chatbot on it, with any mode flags.
InteractInit ==
    /\ SessionInteracting
    /\ TrackerIdle
    /\ ConfigIdle
    /\ DistIdle
    /\ ClaimIdle
    /\ UnitIdle
    /\ HelperIdle
    /\ ApiIdle
    /\ max_contexts_memory = 0
    /\ max_contexts_cpu = 0
    /\ optimal_config = None
    /\ session_batch_size = None
    /\ session_configs = <<>>
    /\ tasks = <<>>
    /\ batch_num = 0
    /\ task_objects = <<>>
    /\ sched_pc = "none"
    /\ session_setup_delay = 0
    /\ session_batch_delay = 0
    /\ batch_processing = DefaultBatchProcessing
    /\ schedule_log = <<>>
    /\ continuous_iterations \in {None} \cup {Some(n) : n \in 0..MaxIter}
    /\ question_pool = <<>>
    /\ question_counter = 0
    /\ total_questions_processed = 0
    /\ should_continue = TRUE
    /\ worker_pc = <<>>
    /\ question_metrics = 0
    /\ unit_failed = FALSE
    /\ pipeline_pc = "none"
    /\ continuous_mode \in BOOLEAN
    /\ concurrent_questions \in BOOLEAN
    /\ \E P \in 1..MaxPool : questions_to_use = [i \in 1..P |-> i]
    /\ cycle_count = 0
    /\ cycle_question = 0
    /\ cycle_pc = "chatbot_click"
    /\ chatbot_attempt = 1
    /\ auth_attempt = 0

InteractNext ==
    \/ \E ok \in BOOLEAN : ChatbotClick(ok)
    \/ \E ok \in BOOLEAN : ContentFrame(ok)
    \/ \E ok \in BOOLEAN : AuthorizeClick(ok)
    \/ ModeChosen
    \/ PipelineHandled
    \/ CycleBegins
    \/ \E raised \in BOOLEAN : AskNext(raised)
    \/ ChatbotTasksReturn

InteractSpec == InteractInit /\ [][InteractNext]_vars

\* C34 (as claimed): a session gets the result success only if its login
\* was confirmed, a target was opened, and the interaction on an opened
\* target ran without a fatal error: its set-up did not fail and its cycle
\* did not raise.
C34_SuccessMeansCompleted ==
    \A s \in Sessions :
        result[s] = "success"
            => /\ dashboard_visible[s]
               /\ \E k \in chatbot_tasks[s] : pages[s][CoursePage(k)] = "open"
               /\ cycle_pc \notin {"setup_failed", "raised"}

\* ------------------------------------------ tracking/integration_helper
\* The values tracking_report_interval is given.
ReportIntervals == {DefaultReportInterval, DefaultReportInterval \div 5}

HelperFrame ==
    UNCHANGED <<runVars, browser_state, sessVars, pipeVars, sizingVars,
                schedVars, configVars, distVars, claimVars, cycleVars,
                unitVars, setupVars, apiVars>>

\* STRESS_TEST_CONFIG['tracking_report_interval'] is given a value.
SetReportInterval(value) ==
    /\ tracking_report_interval' = value
    /\ tracking_report_interval # value
    /\ tracker_call' = Call("set_report_interval", 0, "returned")
    /\ UNCHANGED <<enable_session_tracking, report_interval, orphaned_tasks,
                   active_sessions, session_metrics, is_tracking,
                   tracking_task, periodic_reports, stop_waiters>>
    /\ HelperFrame

\* STRESS_TEST_CONFIG['enable_session_tracking'] is given a value.
SetSessionTracking(value) ==
    /\ enable_session_tracking' = value
    /\ enable_session_tracking # value
    /\ tracker_call' = Call("set_session_tracking", 0, "returned")
    /\ UNCHANGED <<tracking_report_interval, report_interval, orphaned_tasks,
                   active_sessions, session_metrics, is_tracking,
                   tracking_task, periodic_reports, stop_waiters>>
    /\ HelperFrame

\* "if tracker.report_interval != report_interval:"
Replaced(current, configured) == current # configured

\* start_tracking of the helper: with another interval configured,
\* initialize_tracker puts a new SessionTracker in _tracker_instance (the
\* old one is left as it is, its reporting task with it, and the calls
\* suspended in its stop_tracking are no longer those of the global
\* tracker); then tracker.start_tracking().
HelperStartTracking ==
    /\ orphaned_tasks < MaxOrphaned
    /\ IF enable_session_tracking
       THEN LET replaced == Replaced(report_interval, tracking_report_interval)
            IN  /\ report_interval' = tracking_report_interval
                /\ orphaned_tasks' =
                      orphaned_tasks +
                         (IF replaced /\ tracking_task = "sleeping" THEN 1 ELSE 0)
                /\ active_sessions' = IF replaced THEN <<>> ELSE active_sessions
                /\ session_metrics' = IF replaced THEN <<>> ELSE session_metrics
                /\ periodic_reports' = IF replaced THEN <<>> ELSE periodic_reports
                /\ stop_waiters' = IF replaced THEN 0 ELSE stop_waiters
                /\ is_tracking' = TRUE
                /\ tracking_task' = IF replaced \/ ~is_tracking
                                    THEN "sleeping" ELSE tracking_task
       ELSE UNCHANGED <<report_interval, orphaned_tasks, active_sessions,
                        session_metrics, periodic_reports, stop_waiters,
                        is_tracking, tracking_task>>
    /\ tracker_call' = Call("helper_start_tracking", 0, "returned")
    /\ UNCHANGED <<enable_session_tracking, tracking_report_interval>>
    /\ HelperFrame

\* stop_tracking of the helper: tracker.stop_tracking() of the global
\* tracker, up to its await.
HelperStopTracking ==
    /\ enable_session_tracking
    /\ StopTrackingBegins

HelperInit ==
    /\ numUsers = 1
    /\ sessions_per_user = 1
    /\ RunIdle
    /\ max_contexts_memory = 0
    /\ max_contexts_cpu = 0
    /\ optimal_config = None
    /\ session_batch_size = None
    /\ session_configs = <<>>
    /\ tasks = <<>>
    /\ batch_num = 0
    /\ task_objects = <<>>
    /\ sched_pc = "none"
    /\ session_setup_delay = 0
    /\ session_batch_delay = 0
    /\ batch_processing = DefaultBatchProcessing
    /\ schedule_log = <<>>
    /\ TrackerIdle
    /\ ConfigIdle
    /\ DistIdle
    /\ ClaimIdle
    /\ MoreIdle

HelperNext ==
    \/ \E value \in ReportIntervals : SetReportInterval(value)
    \/ \E value \in BOOLEAN : SetSessionTracking(value)
    \/ HelperStartTracking
    \/ HelperStopTracking
    \/ StopTrackingEnds
    \/ ReportIntervalElapsed

HelperSpec == HelperInit /\ [][HelperNext]_vars

\* The periodic reporting tasks that are alive: the one of the global
\* tracker while it sleeps, and those of the replaced trackers.
AliveReportingTasks ==
    (IF tracking_task = "sleeping" THEN 1 ELSE 0) + orphaned_tasks

\* C39 (as claimed): whatever start_tracking and stop_tracking calls were
\* made through the helper, at most one periodic reporting task is alive,
\* and a stop_tracking that finds tracking enabled leaves none alive.
C39_SingleReporter ==
    /\ AliveReportingTasks <= 1
    /\ tracker_call.op = "stop_tracking" /\ enable_session_tracking
          => AliveReportingTasks = 0

\* ----------------------------------------- api.py: POST /stress-test/start
ApiFrame ==
    UNCHANGED <<runVars, browser_state, sessVars, pipeVars, sizingVars,
                trackVars, distVars, claimVars, cycleVars, unitVars,
                setupVars, helperVars, session_batch_size, session_configs,
                tasks, batch_num, task_objects, sched_pc, session_setup_delay,
                session_batch_delay, schedule_log, config_pc>>

\* The background tasks that have not ended.
AliveTasks ==
    {i \in DOMAIN stress_test_tasks : stress_test_tasks[i] \in {"pending", "running"}}

RejectsNever(running) == FALSE

\* "if _stress_test_running: raise HTTPException(status_code=409, ...)"
Rejects(running) == running

\* start_stress_test: a request while the flag is set is answered 409;
\* otherwise the fields of the request are written into STRESS_TEST_CONFIG,
\* the flag is set and the background task is created.
StartStressTest(req_sessions_per_user, req_batch_enabled, req_wait_for_completion) ==
    /\ api_requests < MaxRequests
    /\ api_requests' = api_requests + 1
    /\ IF Rejects(stress_test_running)
       THEN /\ api_response' = "409"
            /\ UNCHANGED <<stress_test_config, batch_processing,
                           stress_test_running, stress_test_tasks>>
       ELSE /\ Len(stress_test_tasks) < MaxRuns
            /\ stress_test_config' =
                  [stress_test_config EXCEPT
                      !.sessions_per_user = Applied(@, req_sessions_per_user),
                      !.dynamic_resource_calculation =
                          IF req_sessions_per_user # None THEN FALSE ELSE @]
            /\ batch_processing' =
                  [enabled |-> Applied(batch_processing.enabled, req_batch_enabled),
                   wait_for_completion |->
                       Applied(batch_processing.wait_for_completion,
                               req_wait_for_completion)]
            /\ stress_test_running' = TRUE
            /\ stress_test_tasks' = Append(stress_test_tasks, "pending")
            /\ api_response' = "started"
    /\ ApiFrame

\* run_stress_test_background is given its first step by the event loop.
BackgroundStarts(i) ==
    /\ i \in DOMAIN stress_test_tasks
    /\ stress_test_tasks[i] = "pending"
    /\ stress_test_tasks' = [stress_test_tasks EXCEPT ![i] = "running"]
    /\ UNCHANGED <<stress_test_config, batch_processing, stress_test_running,
                   api_requests, api_response>>
    /\ ApiFrame

\* How a run ends: its body returns, raises an Exception (caught and
\* logged), or is cancelled at one of its awaits.
RunEnds == {"completed", "error", "cancelled"}

\* run_stress_test_background ends: "finally: _stress_test_running = False"
BackgroundEnds(i, how) ==
    /\ i \in DOMAIN stress_test_tasks
    /\ stress_test_tasks[i] = "running"
    /\ stress_test_tasks' = [stress_test_tasks EXCEPT ![i] = how]
    /\ stress_test_running' = FALSE
    /\ UNCHANGED <<stress_test_config, batch_processing, api_requests,
                   api_response>>
    /\ ApiFrame

\* The API server is up with a configuration of config.py, no run started.
ApiInit ==
    /\ numUsers = 1
    /\ sessions_per_user = 1
    /\ RunIdle
    /\ TrackerIdle
    /\ max_contexts_memory = 0
    /\ max_contexts_cpu = 0
    /\ optimal_config = None
    /\ session_batch_size = None
    /\ session_configs = <<>>
    /\ tasks = <<>>
    /\ batch_num = 0
    /\ task_objects = <<>>
    /\ sched_pc = "none"
    /\ session_setup_delay = 0
    /\ session_batch_delay = 0
    /\ batch_processing = DefaultBatchProcessing
    /\ schedule_log = <<>>
    /\ stress_test_config \in Configs
    /\ stress_test_config.dynamic_resource_calculation
          \/ stress_test_config.max_concurrent_contexts # None
    /\ config_pc = "configured"
    /\ DistIdle
    /\ ClaimIdle
    /\ MoreIdle

ApiNext ==
    \/ \E req_sessions_per_user \in Optional(1..MaxSessions),
          req_batch_enabled \in Optional(BOOLEAN),
          req_wait_for_completion \in Optional(BOOLEAN) :
          StartStressTest(req_sessions_per_user, req_batch_enabled,
                          req_wait_for_completion)
    \/ \E i \in 1..MaxRuns : BackgroundStarts(i)
    \/ \E i \in 1..MaxRuns, how \in RunEnds : BackgroundEnds(i, how)

ApiSpec == ApiInit /\ [][ApiNext]_vars

====
